---- MODULE Spec2Model ----
(***************************************************************************)
(* A model of opensc-explorer (src/tools/opensc-explorer.c): the hex       *)
(* decoder, the path resolver, the navigation state kept by the shell's    *)
(* commands, and the chunked transparent read of cat and get.              *)
(*                                                                         *)
(* Strings of the C program are sequences of one-character strings.  The   *)
(* alphabets used leave out white space, '+', '-', 'x' and 'X', on which   *)
(* sscanf's %X conversion does more than read hex digits.                  *)
(***************************************************************************)
EXTENDS Integers, Sequences, FiniteSets, TLC

VARIABLES hx,            \* one call of hex2binary
          ag,            \* one call of arg_to_path
          rd,            \* one transparent transfer (cat, get or put)
          ln,            \* one input line through parse_line and the dispatch
          pin,           \* one PIN command (verify, change or unblock)
          px,            \* the process from a re-select to its exit in die
          ap,            \* one call of do_apdu
          fn,            \* one default file name of get and of put
          pc,            \* main's position: "start", "prompt", "ls" (inside
                         \* the loop of do_ls) or "exit"
          exit_code,     \* the exit status once pc = "exit"
          ls_todo,       \* inside do_ls: the listed child ids still to show
          card_type,     \* card->type: "BELPIC_EID" or "OTHER"
          current_path,  \* static sc_path_t current_path
          current_file,  \* static sc_file_t *current_file (NULL or attributes)
          selected,      \* the address of the file selected on the card
          last           \* the command executed last: name, argv, result, card selects

vars == <<hx, ag, rd, ln, pin, px, ap, fn, pc, exit_code, ls_todo, card_type, current_path,
          current_file, selected, last>>
shellVars == <<pc, exit_code, ls_todo, card_type, current_path,
               current_file, selected, last>>

-----------------------------------------------------------------------------
(* Library constants (libopensc/types.h).                                   *)

SC_PATH_TYPE_FILE_ID == 0
SC_PATH_TYPE_DF_NAME == 1
SC_PATH_TYPE_PATH == 2
SC_MAX_PATH_SIZE == 16
SC_MAX_AID_SIZE == 16

-----------------------------------------------------------------------------
(* Characters.                                                              *)

Digits == <<"0", "1", "2", "3", "4", "5", "6", "7", "8", "9">>
LowerHex == <<"a", "b", "c", "d", "e", "f">>
UpperHex == <<"A", "B", "C", "D", "E", "F">>

InSeq(c, s) == \E i \in 1..Len(s) : s[i] = c
IndexOf(c, s) == CHOOSE i \in 1..Len(s) : s[i] = c

isxdigit(c) == InSeq(c, Digits) \/ InSeq(c, LowerHex) \/ InSeq(c, UpperHex)

\* The nibble hex2binary computes for a hex digit (lines 1012-1017).
HexVal(c) ==
    IF InSeq(c, Digits) THEN IndexOf(c, Digits) - 1
    ELSE IF InSeq(c, LowerHex) THEN IndexOf(c, LowerHex) + 9
    ELSE IndexOf(c, UpperHex) + 9

LowerAlpha == <<"a", "b", "c", "d", "e", "f", "g", "h", "i", "j", "k", "l", "m",
               "n", "o", "p", "q", "r", "s", "t", "u", "v", "w", "x", "y", "z">>
UpperAlpha == <<"A", "B", "C", "D", "E", "F", "G", "H", "I", "J", "K", "L", "M",
               "N", "O", "P", "Q", "R", "S", "T", "U", "V", "W", "X", "Y", "Z">>

tolower(c) == IF InSeq(c, UpperAlpha) THEN LowerAlpha[IndexOf(c, UpperAlpha)] ELSE c

\* strncasecmp(arg, prefix, strlen(prefix)) == 0
strncasecmp_eq(arg, prefix) ==
    /\ Len(arg) >= Len(prefix)
    /\ \A i \in 1..Len(prefix) : tolower(arg[i]) = tolower(prefix[i])

Drop(s, n) == SubSeq(s, n + 1, Len(s))
Take(s, n) == SubSeq(s, 1, n)
Min(a, b) == IF a < b THEN a ELSE b

\* sprintf "%02X" of a byte.
HexChars == Digits \o UpperHex
sprintf_02X(b) == <<HexChars[(b \div 16) + 1], HexChars[(b % 16) + 1]>>

-----------------------------------------------------------------------------
(* hex2binary, lines 1000-1033.  The loop state is the next input index p,  *)
(* the remaining capacity len, the half-byte flag s and the bytes written   *)
(* through out so far.                                                      *)

RECURSIVE hex2binary_loop(_, _, _, _, _)
hex2binary_loop(in, p, len, s, out) ==
    IF p <= Len(in) /\ (len > 0 \/ s = 1)
    THEN IF ~isxdigit(in[p])
         THEN hex2binary_loop(in, p + 1, len, s, out)
         ELSE IF s = 1
              THEN hex2binary_loop(in, p + 1, len, 0,
                     [out EXCEPT ![Len(out)] = ((@ * 16) % 256) + HexVal(in[p])])
              ELSE hex2binary_loop(in, p + 1, len - 1, 1, Append(out, HexVal(in[p])))
    ELSE [len |-> len, s |-> s, out |-> out]

\* hex2binary without the capacity test of its loop: every byte of in is
\* stored, whatever outlen is.
hex2binary_unbounded(outlen, in) ==
    LET e == hex2binary_loop(in, 1, Len(in), 0, <<>>)
    IN  IF e.s = 1
        THEN [ret |-> 0, out |-> e.out, err |-> TRUE]
        ELSE [ret |-> Len(in) - e.len, out |-> e.out, err |-> FALSE]

\* ret is the value returned, out the bytes stored through out, err whether
\* the odd-digits error was reported.
hex2binary(outlen, in) ==
    LET e == hex2binary_loop(in, 1, outlen, 0, <<>>)
    IN  IF e.s = 1
        THEN [ret |-> 0, out |-> e.out, err |-> TRUE]
        ELSE [ret |-> outlen - e.len, out |-> e.out, err |-> FALSE]

-----------------------------------------------------------------------------
(* sc_path_t: type, value[0..len-1] and the application prefix aid.         *)

ZeroPath == [type |-> SC_PATH_TYPE_FILE_ID, value |-> <<>>, aid |-> <<>>]

\* A null sc_file_t pointer.
NULL == [path |-> ZeroPath, type |-> "NULL", ef_structure |-> "NULL"]

\* sc_format_path("3F00", &path)
RootPath == [type |-> SC_PATH_TYPE_PATH, value |-> <<63, 0>>, aid |-> <<>>]

\* sc_append_path_id(dest, id, idlen): refuses (and leaves dest alone) when
\* the result would not fit SC_MAX_PATH_SIZE; the callers ignore its result.
sc_append_path_id(dest, id) ==
    IF Len(dest.value) + Len(id) > SC_MAX_PATH_SIZE
    THEN dest
    ELSE [dest EXCEPT !.value = dest.value \o id]

\* sc_path_set(&path, SC_PATH_TYPE_FILE_ID, id, 2, 0, 0)
sc_path_set_file_id(id) ==
    [type |-> SC_PATH_TYPE_FILE_ID, value |-> id, aid |-> <<>>]

\* One %02X conversion of sscanf at index p: at most two hex digits, at
\* least one.
ScanHex2(s, p) ==
    IF p > Len(s) \/ ~isxdigit(s[p])
    THEN [ok |-> FALSE, val |-> 0, next |-> p]
    ELSE IF p + 1 <= Len(s) /\ isxdigit(s[p + 1])
         THEN [ok |-> TRUE, val |-> 16 * HexVal(s[p]) + HexVal(s[p + 1]), next |-> p + 2]
         ELSE [ok |-> TRUE, val |-> HexVal(s[p]), next |-> p + 1]

\* sscanf(arg, "%02X%02X", &buf[0], &buf[1]): n conversions, values b0, b1.
sscanf_02X02X(s) ==
    LET a == ScanHex2(s, 1)
    IN  IF ~a.ok THEN [n |-> 0, b0 |-> 0, b1 |-> 0]
        ELSE LET b == ScanHex2(s, a.next)
             IN  IF ~b.ok THEN [n |-> 1, b0 |-> a.val, b1 |-> 0]
                 ELSE [n |-> 2, b0 |-> a.val, b1 |-> b.val]

AidPrefix == <<"a", "i", "d", ":">>

\* arg_to_path, lines 132-182; cur is the global current_path it reads.
arg_to_path_no_root_case(arg, cur, is_id) ==
    IF strncasecmp_eq(arg, AidPrefix)
    THEN LET h == hex2binary(SC_MAX_PATH_SIZE, Drop(arg, Len(AidPrefix)))
         IN  [ret |-> 0,
              path |-> [type |-> SC_PATH_TYPE_DF_NAME,
                        value |-> Take(h.out, h.ret), aid |-> <<>>]]
    ELSE IF Len(arg) # 4 THEN [ret |-> -1, path |-> ZeroPath]
    ELSE LET sc == sscanf_02X02X(arg)
             cbuf == <<sc.b0 % 256, sc.b1 % 256>>
         IN  IF sc.n # 2 THEN [ret |-> -1, path |-> ZeroPath]
             ELSE IF is_id
                  THEN [ret |-> 0,
                        path |-> [type |-> SC_PATH_TYPE_FILE_ID,
                                  value |-> cbuf, aid |-> <<>>]]
                  ELSE [ret |-> 0, path |-> sc_append_path_id(cur, cbuf)]

\* A variant that appends the id to the bytes of the DF name instead of
\* moving them to the application prefix.
arg_to_path_aid_in_path(arg, cur, is_id) ==
    IF strncasecmp_eq(arg, AidPrefix)
    THEN LET h == hex2binary(SC_MAX_PATH_SIZE, Drop(arg, Len(AidPrefix)))
         IN  [ret |-> 0,
              path |-> [type |-> SC_PATH_TYPE_DF_NAME,
                        value |-> Take(h.out, h.ret), aid |-> <<>>]]
    ELSE IF Len(arg) # 4 THEN [ret |-> -1, path |-> ZeroPath]
    ELSE LET sc == sscanf_02X02X(arg)
             cbuf == <<sc.b0 % 256, sc.b1 % 256>>
         IN  IF sc.n # 2 THEN [ret |-> -1, path |-> ZeroPath]
             ELSE IF (cbuf[1] = 63 /\ cbuf[2] = 0) \/ is_id
                  THEN [ret |-> 0,
                        path |-> [type |-> IF is_id THEN SC_PATH_TYPE_FILE_ID
                                                    ELSE SC_PATH_TYPE_PATH,
                                  value |-> cbuf, aid |-> <<>>]]
                  ELSE [ret |-> 0, path |-> sc_append_path_id(cur, cbuf)]

arg_to_path(arg, cur, is_id) ==
    IF strncasecmp_eq(arg, AidPrefix)
    THEN LET h == hex2binary(SC_MAX_PATH_SIZE, Drop(arg, Len(AidPrefix)))
         IN  [ret |-> 0,
              path |-> [type |-> SC_PATH_TYPE_DF_NAME,
                        value |-> Take(h.out, h.ret), aid |-> <<>>]]
    ELSE IF Len(arg) # 4 THEN [ret |-> -1, path |-> ZeroPath]
    ELSE LET sc == sscanf_02X02X(arg)
             cbuf == <<sc.b0 % 256, sc.b1 % 256>>
         IN  IF sc.n # 2 THEN [ret |-> -1, path |-> ZeroPath]
             ELSE IF (cbuf[1] = 63 /\ cbuf[2] = 0) \/ is_id
                  THEN [ret |-> 0,
                        path |-> [type |-> IF is_id THEN SC_PATH_TYPE_FILE_ID
                                                    ELSE SC_PATH_TYPE_PATH,
                                  value |-> cbuf, aid |-> <<>>]]
                  ELSE IF cur.type = SC_PATH_TYPE_DF_NAME
                       THEN IF Len(cur.value) > SC_MAX_AID_SIZE
                            THEN [ret |-> -1, path |-> cur]
                            ELSE [ret |-> 0,
                                  path |-> sc_append_path_id(
                                             [type |-> SC_PATH_TYPE_FILE_ID,
                                              value |-> <<>>,
                                              aid |-> cur.value], cbuf)]
                       ELSE [ret |-> 0, path |-> sc_append_path_id(cur, cbuf)]

-----------------------------------------------------------------------------
(* Values of the variables a specification does not use.                    *)

Idle == [pc |-> "idle"]
NoCmd == [cmd |-> "none", argv |-> <<>>, ret |-> 0, selects |-> <<>>]

ShellIdle ==
    /\ pc = "idle"
    /\ exit_code = 0
    /\ ls_todo = <<>>
    /\ card_type = "OTHER"
    /\ current_path = ZeroPath
    /\ current_file = NULL
    /\ selected = ZeroPath
    /\ last = NoCmd

SeqsUpTo(S, n) == UNION {[1..k -> S] : k \in 0..n}

-----------------------------------------------------------------------------
(* SpecHex: hex2binary applied to every text over HexAlphabet of at most    *)
(* MaxHexLen characters, with every output capacity up to MaxOutLen.        *)

MaxHexLen == 4
MaxOutLen == 2
HexAlphabet == {"1", "a", "F", ":"}

InitHex ==
    /\ hx \in {[pc |-> "call", in |-> i, outlen |-> n, ret |-> 0, out |-> <<>>,
                err |-> FALSE] : i \in SeqsUpTo(HexAlphabet, MaxHexLen),
                                 n \in 0..MaxOutLen}
    /\ ag = Idle
    /\ rd = Idle
    /\ ln = Idle
    /\ pin = Idle /\ px = Idle /\ ap = Idle /\ fn = Idle
    /\ ShellIdle

HexDecode ==
    /\ hx.pc = "call"
    /\ LET h == hex2binary(hx.outlen, hx.in)
       IN  hx' = [hx EXCEPT !.pc = "done", !.ret = h.ret, !.out = h.out,
                            !.err = h.err]
    /\ UNCHANGED <<ag, rd, ln, pin, px, ap, fn, shellVars>>

NextHex == HexDecode

SpecHex == InitHex /\ [][NextHex]_vars

\* The hex digits of a text, in order, and the bytes their pairs form.
RECURSIVE HexDigitsOf(_)
HexDigitsOf(s) ==
    IF s = <<>> THEN <<>>
    ELSE IF isxdigit(Head(s)) THEN <<Head(s)>> \o HexDigitsOf(Tail(s))
    ELSE HexDigitsOf(Tail(s))

PairBytes(d) == [i \in 1..(Len(d) \div 2) |-> 16 * HexVal(d[2 * i - 1]) + HexVal(d[2 * i])]

\* C9: with 2n hex digits in the input the result is the n bytes of the
\* digit pairs, capped at the capacity; with an odd number of hex digits the
\* call reports the error and returns no output, whatever the capacity.
C9_DecodeHexEvenOrError ==
    hx.pc = "done" =>
        LET d == HexDigitsOf(hx.in)
        IN  IF Len(d) % 2 = 0
            THEN /\ ~hx.err
                 /\ hx.ret = Min(Len(d) \div 2, hx.outlen)
                 /\ Take(hx.out, hx.ret) = Take(PairBytes(d), hx.ret)
            ELSE hx.err /\ hx.ret = 0

\* The even half of C9 alone, and the odd half when every digit is read.
HexEvenDigitsDecoded ==
    (hx.pc = "done" /\ Len(HexDigitsOf(hx.in)) % 2 = 0) =>
        /\ ~hx.err
        /\ hx.ret = Min(Len(HexDigitsOf(hx.in)) \div 2, hx.outlen)
        /\ hx.out = Take(PairBytes(HexDigitsOf(hx.in)), hx.ret)
HexOddDigitsWithinCapacity ==
    (hx.pc = "done" /\ Len(HexDigitsOf(hx.in)) % 2 = 1
        /\ Len(HexDigitsOf(hx.in)) < 2 * hx.outlen) => (hx.err /\ hx.ret = 0)

-----------------------------------------------------------------------------
(* SpecArg: arg_to_path applied to every token over ArgAlphabet of at most  *)
(* MaxArgLen characters and to a few aid: tokens, from each of the current  *)
(* addresses of ArgCurrents, in both modes.                                 *)

MaxArgLen == 4
ArgAlphabet == {"3", "F", "0", "5", ":"}
AidTokens == {AidPrefix \o t : t \in SeqsUpTo({"A", "1"}, 3)}
ArgTokens == SeqsUpTo(ArgAlphabet, MaxArgLen) \cup AidTokens

\* n copies of the byte sequence b.
RECURSIVE Rep(_, _)
Rep(b, n) == IF n = 0 THEN <<>> ELSE b \o Rep(b, n - 1)

\* 3F00 followed by k times 5015: the paths k successful "cd 5015" reach.
DeepPath(k) == [RootPath EXCEPT !.value = <<63, 0>> \o Rep(<<80, 21>>, k)]
\* The address "cd aid:<2n hex digits>" reaches.
AidPath(n) == [type |-> SC_PATH_TYPE_DF_NAME, value |-> Rep(<<160>>, n), aid |-> <<>>]

ArgCurrents ==
    {ZeroPath}
      \cup {DeepPath(k) : k \in 0..((SC_MAX_PATH_SIZE \div 2) - 1)}
      \cup {AidPath(n) : n \in {0, 1, 4, SC_MAX_AID_SIZE}}
      \cup {[type |-> SC_PATH_TYPE_FILE_ID, value |-> <<80, 21>>, aid |-> <<160>>]}

InitArg ==
    /\ ag \in {[pc |-> "call", arg |-> a, cur |-> c, is_id |-> i, ret |-> 0,
                path |-> ZeroPath] : a \in ArgTokens, c \in ArgCurrents,
                                     i \in BOOLEAN}
    /\ hx = Idle
    /\ rd = Idle
    /\ ln = Idle
    /\ pin = Idle /\ px = Idle /\ ap = Idle /\ fn = Idle
    /\ ShellIdle

Resolve ==
    /\ ag.pc = "call"
    /\ LET r == arg_to_path(ag.arg, ag.cur, ag.is_id)
       IN  ag' = [ag EXCEPT !.pc = "done", !.ret = r.ret, !.path = r.path]
    /\ UNCHANGED <<hx, rd, ln, pin, px, ap, fn, shellVars>>

NextArg == Resolve

SpecArg == InitArg /\ [][NextArg]_vars

IsHexId(t) == Len(t) = 4 /\ \A i \in 1..4 : isxdigit(t[i])
IsRootToken(t) == IsHexId(t) /\ PairBytes(t) = <<63, 0>>

\* C6: the token 3F00 in non-raw mode resolves to the root path (type PATH,
\* bytes 3F 00) and a 4-hex-digit token in raw-id mode to the FILE_ID address
\* of its two bytes, whatever the current address is.
C6_AbsoluteIgnoresCurrent ==
    ag.pc = "done" =>
        /\ (IsRootToken(ag.arg) /\ ~ag.is_id) =>
               (ag.ret = 0 /\ ag.path = RootPath)
        /\ (IsHexId(ag.arg) /\ ag.is_id) =>
               (ag.ret = 0 /\ ag.path = [type |-> SC_PATH_TYPE_FILE_ID,
                                        value |-> PairBytes(ag.arg),
                                        aid |-> <<>>])

C6_Witness ==
    /\ ag.pc = "done"
    /\ IsRootToken(ag.arg) /\ ~ag.is_id
    /\ ag.cur = DeepPath(2)
    /\ ag.path = RootPath

\* C7: from a path-typed current address of even length L in 2..16 a 2-byte
\* id other than 3F00 resolves, in non-raw mode, to the current bytes
\* followed by the id bytes, of length L+2, and never to a success without
\* the trailing component.
C7_RelativeAppends ==
    (/\ ag.pc = "done"
     /\ ag.cur.type = SC_PATH_TYPE_PATH
     /\ Len(ag.cur.value) \in 2..SC_MAX_PATH_SIZE
     /\ Len(ag.cur.value) % 2 = 0
     /\ IsHexId(ag.arg) /\ ~IsRootToken(ag.arg) /\ ~ag.is_id)
    => /\ ag.ret = 0
       /\ ag.path.type = SC_PATH_TYPE_PATH
       /\ ag.path.value = ag.cur.value \o PairBytes(ag.arg)
       /\ Len(ag.path.value) = Len(ag.cur.value) + 2

\* C7 holds of every current path that leaves room for one more component.
RelativeAppendsBelowMax ==
    (/\ ag.pc = "done"
     /\ ag.cur.type = SC_PATH_TYPE_PATH
     /\ Len(ag.cur.value) + 2 <= SC_MAX_PATH_SIZE
     /\ IsHexId(ag.arg) /\ ~IsRootToken(ag.arg) /\ ~ag.is_id)
    => /\ ag.ret = 0
       /\ ag.path.value = ag.cur.value \o PairBytes(ag.arg)

-----------------------------------------------------------------------------
(* The card, as far as the shell's navigation sees it.  selected is the     *)
(* address whose select succeeded last; before any select it is ZeroPath,   *)
(* the card's selection at power-on, and after a failed select the card may *)
(* keep its selection or be left on some other file (Unknown).  A file      *)
(* exists where every component above it is a DF.                           *)

Unknown == [type |-> -1, value |-> <<>>, aid |-> <<>>]

SC_FILE_TYPE_DF == "DF"
SC_FILE_TYPE_WORKING_EF == "WORKING_EF"
SC_FILE_EF_TRANSPARENT == "TRANSPARENT"
SC_FILE_EF_LINEAR_VARIABLE == "LINEAR_VARIABLE"
SC_FILE_EF_UNKNOWN == "UNKNOWN"

\* The card's files: 3F00 and 5015 are DFs, 2F00 a transparent working EF,
\* 4F01 a linear-variable working EF.
LastId(value) == IF Len(value) >= 2 THEN SubSeq(value, Len(value) - 1, Len(value)) ELSE <<>>
IsEfId(id) == id \in {<<47, 0>>, <<79, 1>>}
SC_CARD_TYPE_BELPIC_EID == "BELPIC_EID"

FileOf(path) ==
    LET id == LastId(path.value)
    IN  [path |-> path,
         type |-> IF path.type # SC_PATH_TYPE_DF_NAME /\ IsEfId(id)
                  THEN SC_FILE_TYPE_WORKING_EF ELSE SC_FILE_TYPE_DF,
         ef_structure |-> IF path.type = SC_PATH_TYPE_DF_NAME THEN SC_FILE_EF_UNKNOWN
                          ELSE IF id = <<47, 0>> THEN SC_FILE_EF_TRANSPARENT
                          ELSE IF id = <<79, 1>> THEN SC_FILE_EF_LINEAR_VARIABLE
                          ELSE SC_FILE_EF_UNKNOWN]

\* The depth of the card's file tree below which nothing exists.
MaxDepth == 8

\* A FILE_ID select takes exactly one 2-byte id.
CardHas(path) ==
    \/ path.type = SC_PATH_TYPE_DF_NAME
    \/ /\ Len(path.value) >= 2
       /\ Len(path.value) <= 2 * MaxDepth
       /\ Len(path.value) % 2 = 0
       /\ path.type = SC_PATH_TYPE_FILE_ID => Len(path.value) = 2
       /\ \A i \in 1..((Len(path.value) \div 2) - 1) :
              ~IsEfId(SubSeq(path.value, 2 * i - 1, 2 * i))

SelOutcomes == {"ok", "fail", "lost"}

\* sc_select_file(card, &path, &file) with the card's answer o: the result r,
\* the card's selection afterwards, the attributes returned, and the call as
\* it is logged.
sc_select_file(sel, path, o) ==
    IF o = "ok" /\ CardHas(path)
    THEN [r |-> 0, sel |-> path, file |-> FileOf(path),
          log |-> <<[path |-> path, r |-> 0]>>]
    ELSE [r |-> -1, sel |-> IF o = "lost" THEN Unknown ELSE sel, file |-> NULL,
          log |-> <<[path |-> path, r |-> -1]>>]

\* What a command does to the process: it returns ret to the shell loop
\* ("return"), ends the process through die or exit ("exit", ret the exit
\* code), or dereferences a null current_file ("crash").
Return(ret, cp, cf, sel, log) ==
    [kind |-> "return", ret |-> ret, cp |-> cp, cf |-> cf, sel |-> sel, selects |-> log]
\* die(ret), lines 82-93: frees current_file and exits.
die(ret, cp, sel, log) ==
    [kind |-> "exit", ret |-> ret, cp |-> cp, cf |-> NULL, sel |-> sel, selects |-> log]
Crash(cp, cf, sel, log) ==
    [kind |-> "crash", ret |-> 139, cp |-> cp, cf |-> cf, sel |-> sel, selects |-> log]

\* select_current_path_or_die, lines 95-104, followed by "return ret": the
\* re-select is skipped for the all-zero current_path.  The first variant
\* returns to its caller when the select fails.
select_current_path_or_return(ret, cp, cf, sel, log, o) ==
    LET reselected(s) == Return(ret, cp, cf, s.sel, log \o s.log)
    IN  IF cp.type # 0 \/ Len(cp.value) # 0
        THEN reselected(sc_select_file(sel, cp, o))
        ELSE Return(ret, cp, cf, sel, log)

select_current_path_or_die(ret, cp, cf, sel, log, o) ==
    LET reselected(s) ==
            IF s.r # 0 THEN die(1, cp, s.sel, log \o s.log)
            ELSE Return(ret, cp, cf, s.sel, log \o s.log)
    IN  IF cp.type # 0 \/ Len(cp.value) # 0
        THEN reselected(sc_select_file(sel, cp, o))
        ELSE Return(ret, cp, cf, sel, log)

-----------------------------------------------------------------------------
(* The command handlers.  Each is given argv (the tokens after the command  *)
(* name), the navigation state cp = current_path, cf = current_file, the    *)
(* card's selection sel, and the card's answers; it yields what Return, die *)
(* or Crash build.                                                          *)

T_UP == <<".", ".">>
T_3F00 == <<"3", "F", "0", "0">>
T_5015 == <<"5", "0", "1", "5">>
T_2F00 == <<"2", "F", "0", "0">>
T_4F01 == <<"4", "F", "0", "1">>
T_SHORT == <<"5", "0">>
T_NOHEX == <<"5", ":", "1", "5">>
T_AID4 == AidPrefix \o <<"A", "0", "A", "1", "A", "2", "A", "3">>
T_AID1 == AidPrefix \o <<"A", "0">>
T_AIDODD == AidPrefix \o <<"A">>
\* An application name one byte longer than sc_path_t.value.
T_AID17 == AidPrefix \o Rep(<<"A", "0">>, SC_MAX_PATH_SIZE + 1)

\* do_cd, lines 258-314.  o1 answers its select, o2 the re-select of the
\* not-a-DF path.  The first variant assigns current_path before it looks
\* at the result of the select; the second lacks the "already in MF" test.
do_cd_path_first(argv, cp, cf, sel, ctype, o1, o2) ==
    LET went_up(path, s) ==
            IF s.r # 0 THEN Return(-1, cp, cf, s.sel, s.log)
            ELSE Return(0, path, s.file, s.sel, s.log)
        up(path) == went_up(path, sc_select_file(sel, path, o1))
        selected_file(path, s) ==
            IF s.r # 0 THEN Return(-1, path, cf, s.sel, s.log)
            ELSE IF s.file.type # SC_FILE_TYPE_DF /\ ctype # SC_CARD_TYPE_BELPIC_EID
                 THEN select_current_path_or_die(-1, cp, cf, s.sel, s.log, o2)
            ELSE Return(0, path, s.file, s.sel, s.log)
        resolved(a) ==
            IF a.ret # 0 THEN Return(-1, cp, cf, sel, <<>>)
            ELSE selected_file(a.path, sc_select_file(sel, a.path, o1))
    IN  IF Len(argv) # 1 THEN Return(-1, cp, cf, sel, <<>>)
        ELSE IF argv[1] = T_UP
        THEN IF Len(cp.value) < 4 THEN Return(-1, cp, cf, sel, <<>>)
             ELSE up(IF cp.type = SC_PATH_TYPE_DF_NAME THEN RootPath
                     ELSE [cp EXCEPT !.value = Take(@, Len(@) - 2)])
        ELSE resolved(arg_to_path(argv[1], cp, FALSE))

do_cd_up_unguarded(argv, cp, cf, sel, ctype, o1, o2) ==
    LET went_up(path, s) ==
            IF s.r # 0 THEN Return(-1, cp, cf, s.sel, s.log)
            ELSE Return(0, path, s.file, s.sel, s.log)
        up(path) == went_up(path, sc_select_file(sel, path, o1))
        selected_file(path, s) ==
            IF s.r # 0 THEN Return(-1, cp, cf, s.sel, s.log)
            ELSE IF s.file.type # SC_FILE_TYPE_DF /\ ctype # SC_CARD_TYPE_BELPIC_EID
                 THEN select_current_path_or_die(-1, cp, cf, s.sel, s.log, o2)
            ELSE Return(0, path, s.file, s.sel, s.log)
        resolved(a) ==
            IF a.ret # 0 THEN Return(-1, cp, cf, sel, <<>>)
            ELSE selected_file(a.path, sc_select_file(sel, a.path, o1))
    IN  IF Len(argv) # 1 THEN Return(-1, cp, cf, sel, <<>>)
        ELSE IF argv[1] = T_UP
        THEN up(IF cp.type = SC_PATH_TYPE_DF_NAME THEN RootPath
                ELSE [cp EXCEPT !.value = Take(@, Len(@) - 2)])
        ELSE resolved(arg_to_path(argv[1], cp, FALSE))

do_cd(argv, cp, cf, sel, ctype, o1, o2) ==
    LET went_up(path, s) ==
            IF s.r # 0 THEN Return(-1, cp, cf, s.sel, s.log)
            ELSE Return(0, path, s.file, s.sel, s.log)
        up(path) == went_up(path, sc_select_file(sel, path, o1))
        selected_file(path, s) ==
            IF s.r # 0 THEN Return(-1, cp, cf, s.sel, s.log)
            ELSE IF s.file.type # SC_FILE_TYPE_DF /\ ctype # SC_CARD_TYPE_BELPIC_EID
                 THEN select_current_path_or_die(-1, cp, cf, s.sel, s.log, o2)
            ELSE Return(0, path, s.file, s.sel, s.log)
        resolved(a) ==
            IF a.ret # 0 THEN Return(-1, cp, cf, sel, <<>>)
            ELSE selected_file(a.path, sc_select_file(sel, a.path, o1))
    IN  IF Len(argv) # 1 THEN Return(-1, cp, cf, sel, <<>>)
        ELSE IF argv[1] = T_UP
        THEN IF Len(cp.value) < 4 THEN Return(-1, cp, cf, sel, <<>>)
             ELSE up(IF cp.type = SC_PATH_TYPE_DF_NAME THEN RootPath
                     ELSE [cp EXCEPT !.value = Take(@, Len(@) - 2)])
        ELSE resolved(arg_to_path(argv[1], cp, FALSE))

\* One iteration of the loop of do_ls, lines 226-251, for the listed id:
\* select the child (answer o1), then select_current_path_or_die (answer o2).
ls_child(id, cp, cf, sel, log, o1, o2) ==
    LET listed(s) == select_current_path_or_die(0, cp, cf, s.sel, log \o s.log, o2)
    IN  listed(sc_select_file(sel,
                              IF cp.type # SC_PATH_TYPE_DF_NAME
                              THEN sc_append_path_id(cp, id)
                              ELSE sc_path_set_file_id(id),
                              o1))

\* Leading decimal digits, as atoi, strtol(.., 10) and sscanf %u read them.
IsDigit(c) == InSeq(c, Digits)
RECURSIVE DecVal(_, _)
DecVal(s, acc) ==
    IF s = <<>> \/ ~IsDigit(Head(s)) THEN acc
    ELSE DecVal(Tail(s), 10 * acc + (IndexOf(Head(s), Digits) - 1))
atoi(s) == DecVal(s, 0)
HasNumber(s) == s # <<>> /\ IsDigit(Head(s))

SfiPrefix == <<"s", "f", "i", ":">>
T_SFI1 == SfiPrefix \o <<"1">>
T_SFI0 == SfiPrefix \o <<"0">>

\* do_cat from line 407 on: file is the file to print, not_current whether
\* it was selected for this command.  The result of the read is not used.
cat_print(file, not_current, sfi, cp, cf, sel, log, o2) ==
    LET printed(err) ==
            IF not_current
            THEN select_current_path_or_die(-err, cp, cf, sel, log, o2)
            ELSE Return(-err, cp, cf, sel, log)
    IN  IF file = NULL THEN Crash(cp, cf, sel, log)
        ELSE printed(IF file.type # SC_FILE_TYPE_WORKING_EF
                        /\ ~(file.type = SC_FILE_TYPE_DF /\ sfi # 0)
                     THEN 1 ELSE 0)

\* do_cat, lines 364-432.
do_cat(argv, cp, cf, sel, o1, o2) ==
    LET by_sfi(sfi) ==
            IF sfi < 1 \/ sfi > 30 THEN Return(-1, cp, cf, sel, <<>>)
            ELSE cat_print(cf, FALSE, sfi, cp, cf, sel, <<>>, o2)
        selected_file(s) ==
            IF s.r # 0
            THEN select_current_path_or_die(-1, cp, cf, s.sel, s.log, o2)
            ELSE cat_print(s.file, TRUE, 0, cp, cf, s.sel, s.log, o2)
        resolved(a) ==
            IF a.ret # 0 THEN Return(-1, cp, cf, sel, <<>>)
            ELSE selected_file(sc_select_file(sel, a.path, o1))
    IN  IF Len(argv) > 1 THEN Return(-1, cp, cf, sel, <<>>)
        ELSE IF Len(argv) = 0 THEN cat_print(cf, FALSE, 0, cp, cf, sel, <<>>, o2)
        ELSE IF strncasecmp_eq(argv[1], SfiPrefix)
        THEN IF cf = NULL
             THEN select_current_path_or_die(-1, cp, cf, sel, <<>>, o2)
             ELSE by_sfi(atoi(Drop(argv[1], Len(SfiPrefix))))
        ELSE resolved(arg_to_path(argv[1], cp, FALSE))

\* do_info, lines 434-565.
do_info(argv, cp, cf, sel, o1, o2) ==
    LET selected_file(s) ==
            IF s.r # 0 THEN Return(-1, cp, cf, s.sel, s.log)
            ELSE select_current_path_or_die(0, cp, cf, s.sel, s.log, o2)
        resolved(a) ==
            IF a.ret # 0 THEN Return(-1, cp, cf, sel, <<>>)
            ELSE selected_file(sc_select_file(sel, a.path, o1))
    IN  IF Len(argv) = 0
        THEN IF cf = NULL THEN Crash(cp, cf, sel, <<>>)
             ELSE Return(0, cp, cf, sel, <<>>)
        ELSE IF Len(argv) = 1 THEN resolved(arg_to_path(argv[1], cp, FALSE))
        ELSE Return(-1, cp, cf, sel, <<>>)

\* do_create and do_mkdir, lines 582-640, with create_file, lines 567-580.
\* oc is the card's answer to CREATE FILE: "fail", "ok", or "ok_selects" when
\* the card also selects the file it created (comment at lines 576-577).
do_create(argv, cp, cf, sel, oc, o2) ==
    LET resolved(a) ==
            IF a.ret # 0 \/ ~HasNumber(argv[2]) THEN Return(-1, cp, cf, sel, <<>>)
            ELSE IF oc = "fail" THEN Return(-1, cp, cf, sel, <<>>)
            ELSE select_current_path_or_die(0, cp, cf,
                     IF oc = "ok_selects" THEN a.path ELSE sel, <<>>, o2)
    IN  IF Len(argv) # 2 THEN Return(-1, cp, cf, sel, <<>>)
        ELSE resolved(arg_to_path(argv[1], cp, TRUE))

do_mkdir(argv, cp, cf, sel, oc, o2) == do_create(argv, cp, cf, sel, oc, o2)

\* do_delete, lines 642-663; od is the card's answer to DELETE FILE.
do_delete(argv, cp, cf, sel, od) ==
    LET resolved(a) ==
            IF a.ret # 0 \/ Len(a.path.value) # 2 THEN Return(-1, cp, cf, sel, <<>>)
            ELSE IF od # "ok" THEN Return(-1, cp, cf, sel, <<>>)
            ELSE Return(0, cp, cf, sel, <<>>)
    IN  IF Len(argv) # 1 THEN Return(-1, cp, cf, sel, <<>>)
        ELSE resolved(arg_to_path(argv[1], cp, TRUE))

\* do_get, lines 917-998.  fo: fopen succeeded; o1: the select; io: the read
\* loop ran to the end; o2: the re-select.
do_get(argv, cp, cf, sel, fo, o1, io, o2) ==
    LET selected_file(s) ==
            IF s.r # 0
            THEN select_current_path_or_die(-1, cp, cf, s.sel, s.log, o2)
            ELSE IF s.file.type # SC_FILE_TYPE_WORKING_EF \/ ~io
                 THEN select_current_path_or_die(-1, cp, cf, s.sel, s.log, o2)
            ELSE select_current_path_or_die(0, cp, cf, s.sel, s.log, o2)
        resolved(a) ==
            IF a.ret # 0 THEN Return(-1, cp, cf, sel, <<>>)
            ELSE IF ~fo THEN select_current_path_or_die(-1, cp, cf, sel, <<>>, o2)
            ELSE selected_file(sc_select_file(sel, a.path, o1))
    IN  IF Len(argv) < 1 \/ Len(argv) > 2 THEN Return(-1, cp, cf, sel, <<>>)
        ELSE resolved(arg_to_path(argv[1], cp, FALSE))

\* do_put, lines 1159-1228, with the same answers (io: the write loop).
do_put(argv, cp, cf, sel, fo, o1, io, o2) ==
    LET selected_file(s) ==
            IF s.r # 0 \/ ~io
            THEN select_current_path_or_die(-1, cp, cf, s.sel, s.log, o2)
            ELSE select_current_path_or_die(0, cp, cf, s.sel, s.log, o2)
        resolved(a) ==
            IF a.ret # 0 THEN Return(-1, cp, cf, sel, <<>>)
            ELSE IF ~fo THEN select_current_path_or_die(-1, cp, cf, sel, <<>>, o2)
            ELSE selected_file(sc_select_file(sel, a.path, o1))
    IN  IF Len(argv) < 1 \/ Len(argv) > 2 THEN Return(-1, cp, cf, sel, <<>>)
        ELSE resolved(arg_to_path(argv[1], cp, FALSE))

\* sizeof(buf) of do_update_binary and do_update_record.
UpdateBufSize == 240
Quote == "\""

\* argv[i], or the "" main pads cargv with (lines 1671-1672).
ArgOrEmpty(argv, i) == IF i <= Len(argv) THEN argv[i] ELSE <<>>

\* do_update_binary, lines 1035-1092; io: sc_update_binary succeeded.
do_update_binary(argv, cp, cf, sel, o1, io, o2) ==
    LET selected_file(s) ==
            IF s.r # 0 THEN Return(-1, cp, cf, s.sel, s.log)
            ELSE IF s.file.ef_structure # SC_FILE_EF_TRANSPARENT \/ ~io
                 THEN select_current_path_or_die(-1, cp, cf, s.sel, s.log, o2)
            ELSE select_current_path_or_die(0, cp, cf, s.sel, s.log, o2)
        resolved(a, in_str) ==
            IF a.ret # 0 THEN Return(-1, cp, cf, sel, <<>>)
            ELSE IF /\ ~(in_str # <<>> /\ Head(in_str) = Quote)
                    /\ hex2binary(UpdateBufSize, in_str).ret = 0
                 THEN Return(-1, cp, cf, sel, <<>>)
            ELSE selected_file(sc_select_file(sel, a.path, o1))
    IN  IF Len(argv) < 2 \/ Len(argv) > 3 THEN Return(-1, cp, cf, sel, <<>>)
        ELSE resolved(arg_to_path(argv[1], cp, FALSE), ArgOrEmpty(argv, 3))

\* The record count the card reports for its linear-variable EF.
RecordCount == 2

\* do_update_record, lines 1094-1156, for an in-record offset within the
\* buffer; io: the record read and the record update both succeeded.
do_update_record(argv, cp, cf, sel, o1, io, o2) ==
    LET selected_file(s, rec, offs, in_str) ==
            IF s.r # 0 THEN Return(-1, cp, cf, s.sel, s.log)
            ELSE IF \/ s.file.ef_structure # SC_FILE_EF_LINEAR_VARIABLE
                    \/ rec < 1 \/ rec > RecordCount
                    \/ ~io
                    \/ hex2binary(UpdateBufSize - offs, in_str).ret = 0
                 THEN select_current_path_or_die(-1, cp, cf, s.sel, s.log, o2)
            ELSE select_current_path_or_die(0, cp, cf, s.sel, s.log, o2)
        resolved(a) ==
            IF a.ret # 0 THEN Return(-1, cp, cf, sel, <<>>)
            ELSE selected_file(sc_select_file(sel, a.path, o1), atoi(argv[2]),
                               atoi(argv[3]), ArgOrEmpty(argv, 4))
    IN  IF Len(argv) < 3 \/ Len(argv) > 4 THEN Return(-1, cp, cf, sel, <<>>)
        ELSE resolved(arg_to_path(argv[1], cp, FALSE))

\* do_asn1, lines 1387-1455; io: the read returned the whole file.
do_asn1(argv, cp, cf, sel, o1, io, o2) ==
    LET selected_file(s) ==
            IF \/ s.r # 0
               \/ s.file.type # SC_FILE_TYPE_WORKING_EF
               \/ s.file.ef_structure # SC_FILE_EF_TRANSPARENT
               \/ ~io
            THEN select_current_path_or_die(-1, cp, cf, s.sel, s.log, o2)
            ELSE select_current_path_or_die(0, cp, cf, s.sel, s.log, o2)
        resolved(a) ==
            IF a.ret # 0 THEN Return(-1, cp, cf, sel, <<>>)
            ELSE selected_file(sc_select_file(sel, a.path, o1))
    IN  IF Len(argv) > 1 THEN Return(-1, cp, cf, sel, <<>>)
        ELSE IF Len(argv) = 1 THEN resolved(arg_to_path(argv[1], cp, FALSE))
        ELSE IF cf = NULL THEN Crash(cp, cf, sel, <<>>)
        ELSE IF \/ cf.type # SC_FILE_TYPE_WORKING_EF
                \/ cf.ef_structure # SC_FILE_EF_TRANSPARENT
                \/ ~io
             THEN Return(-1, cp, cf, sel, <<>>)
        ELSE Return(0, cp, cf, sel, <<>>)

\* do_quit, lines 1457-1461.
do_quit(cp, sel) == die(0, cp, sel, <<>>)

-----------------------------------------------------------------------------
(* Spec: the shell.  main selects the start-up file (lines 1626-1646) and   *)
(* then runs one command per input line (lines 1652-1679).                  *)

MaxLsChildren == 2

T_16 == <<"1", "6">>
T_0 == <<"0">>
T_1 == <<"1">>
T_9 == <<"9">>
T_HEX == <<"1", "a">>
T_QUOTED == <<Quote, "a", Quote>>

CdArgs == {<<>>, <<T_UP>>, <<T_3F00>>, <<T_5015>>, <<T_2F00>>, <<T_SHORT>>,
           <<T_NOHEX>>, <<T_AID4>>, <<T_AID1>>, <<T_AIDODD>>, <<T_AID17>>}
CatArgs == {<<>>, <<T_2F00>>, <<T_5015>>, <<T_SFI1>>, <<T_SFI0>>, <<T_2F00, T_2F00>>}
InfoArgs == {<<>>, <<T_2F00>>, <<T_SHORT>>, <<T_2F00, T_2F00>>}
CreateArgs == {<<T_4F01>>, <<T_4F01, T_16>>, <<T_4F01, T_NOHEX>>}
DeleteArgs == {<<>>, <<T_4F01>>, <<T_AID4>>}
GetArgs == {<<>>, <<T_2F00>>, <<T_5015>>, <<T_AIDODD>>}
UpdateBinaryArgs == {<<T_2F00>>, <<T_2F00, T_0>>, <<T_2F00, T_0, T_HEX>>,
                     <<T_4F01, T_0, T_QUOTED>>}
UpdateRecordArgs == {<<T_4F01, T_1>>, <<T_4F01, T_1, T_0, T_HEX>>,
                     <<T_4F01, T_9, T_0, T_HEX>>, <<T_2F00, T_1, T_0, T_HEX>>}
Asn1Args == {<<>>, <<T_2F00>>, <<T_5015>>}
LsIds == {<<80, 21>>, <<47, 0>>}
\* The answers the card and the local file system give one command: the
\* re-select either succeeds or fails; of the answers before it, those after
\* a failing one are never asked for.
ReselOutcomes == {"ok", "fail"}
\* <<select, re-select>>
SelAnswers == {<<"ok", "ok">>, <<"ok", "fail">>, <<"fail", "ok">>, <<"lost", "ok">>,
               <<"lost", "fail">>}

StartTokens == {T_3F00, T_5015}

Init ==
    /\ pc = "start"
    /\ exit_code = 0
    /\ ls_todo = <<>>
    /\ card_type \in {SC_CARD_TYPE_BELPIC_EID, "OTHER"}
    /\ current_path = ZeroPath
    /\ current_file = NULL
    /\ selected = ZeroPath
    /\ last = NoCmd
    /\ hx = Idle
    /\ ag = Idle
    /\ rd = Idle
    /\ ln = Idle
    /\ pin = Idle /\ px = Idle /\ ap = Idle /\ fn = Idle

\* No -m option: main selects 3F00 (lines 1639-1646).
StartDefault ==
    /\ pc = "start"
    /\ \E o \in SelOutcomes :
         LET s == sc_select_file(selected, RootPath, o)
         IN  /\ selected' = s.sel
             /\ IF s.r = 0
                THEN /\ pc' = "prompt"
                     /\ current_path' = RootPath
                     /\ current_file' = s.file
                     /\ UNCHANGED exit_code
                ELSE /\ pc' = "exit"
                     /\ exit_code' = 1
                     /\ current_path' = RootPath
                     /\ UNCHANGED current_file
    /\ UNCHANGED <<ls_todo, card_type, last, hx, ag, rd, ln, pin, px, ap, fn>>

\* -m "": nothing is selected (lines 1626-1627).
StartEmpty ==
    /\ pc = "start"
    /\ pc' = "prompt"
    /\ UNCHANGED <<exit_code, ls_todo, card_type, current_path, current_file,
                   selected, last, hx, ag, rd, ln, pin, px, ap, fn>>

\* What main does with the result of the start-up do_cd (lines 1631-1636).
Started(res) ==
    /\ pc = "start"
    /\ pc' = IF res.kind = "return" /\ res.ret = 0 THEN "prompt" ELSE "exit"
    /\ exit_code' = IF res.kind # "return" THEN res.ret
                    ELSE IF res.ret # 0 THEN 255 ELSE exit_code
    /\ current_path' = res.cp
    /\ current_file' = res.cf
    /\ selected' = res.sel
    /\ UNCHANGED <<ls_todo, card_type, last, hx, ag, rd, ln, pin, px, ap, fn>>

\* -m <path>: main calls do_cd (lines 1628-1637) and returns -1 when it fails.
StartAt ==
    \E t \in StartTokens, a \in SelAnswers :
        Started(do_cd(<<t>>, current_path, current_file, selected,
                      card_type, a[1], a[2]))

\* A command run from the prompt: cmd->func(cargc-1, cargv+1), line 1677.
Run(cmd, argv, res) ==
    /\ pc = "prompt"
    /\ pc' = IF res.kind = "return" THEN "prompt" ELSE "exit"
    /\ exit_code' = IF res.kind = "return" THEN exit_code ELSE res.ret
    /\ current_path' = res.cp
    /\ current_file' = res.cf
    /\ selected' = res.sel
    /\ last' = [cmd |-> cmd, argv |-> argv, ret |-> res.ret, selects |-> res.selects]
    /\ UNCHANGED <<ls_todo, card_type, hx, ag, rd, ln, pin, px, ap, fn>>

\* <<select, transfer succeeded, re-select>>
IoAnswers == {<<"fail", TRUE, "ok">>, <<"lost", TRUE, "ok">>, <<"lost", TRUE, "fail">>,
              <<"ok", FALSE, "ok">>, <<"ok", TRUE, "ok">>, <<"ok", TRUE, "fail">>}
\* <<fopen succeeded, select, transfer succeeded, re-select>>
FileAnswers == {<<FALSE, "ok", TRUE, "ok">>}
                   \cup {<<TRUE, a[1], a[2], a[3]>> : a \in IoAnswers}

Cd ==
    \E argv \in CdArgs, a \in SelAnswers :
        Run("cd", argv, do_cd(argv, current_path, current_file, selected,
                              card_type, a[1], a[2]))

\* do_ls, lines 212-256, up to its loop: the usage error, the failure of
\* sc_list_files, or the listing ids the card returns.
LsBegin ==
    /\ pc = "prompt"
    /\ \/ \E argv \in {<<T_5015>>} :
            Run("ls", argv, Return(-1, current_path, current_file, selected, <<>>))
       \/ Run("ls", <<>>, Return(-1, current_path, current_file, selected, <<>>))
       \/ \E ids \in SeqsUpTo(LsIds, MaxLsChildren) :
            /\ pc' = "ls"
            /\ ls_todo' = ids
            /\ last' = [cmd |-> "ls", argv |-> <<>>, ret |-> 0, selects |-> <<>>]
            /\ UNCHANGED <<exit_code, card_type, current_path, current_file,
                           selected, hx, ag, rd, ln, pin, px, ap, fn>>

\* One iteration of the loop of do_ls.
LsChild ==
    /\ pc = "ls"
    /\ ls_todo # <<>>
    /\ \E a \in SelAnswers :
         LET res == ls_child(Head(ls_todo), current_path, current_file,
                             selected, last.selects, a[1], a[2])
         IN  /\ pc' = IF res.kind = "return" THEN "ls" ELSE "exit"
             /\ exit_code' = IF res.kind = "return" THEN exit_code ELSE res.ret
             /\ ls_todo' = IF res.kind = "return" THEN Tail(ls_todo) ELSE <<>>
             /\ current_path' = res.cp
             /\ current_file' = res.cf
             /\ selected' = res.sel
             /\ last' = [last EXCEPT !.selects = res.selects]
    /\ UNCHANGED <<card_type, hx, ag, rd, ln, pin, px, ap, fn>>

\* do_ls returns 0 after the last listed id (line 252).
LsReturn ==
    /\ pc = "ls"
    /\ ls_todo = <<>>
    /\ pc' = "prompt"
    /\ UNCHANGED <<exit_code, ls_todo, card_type, current_path, current_file,
                   selected, last, hx, ag, rd, ln, pin, px, ap, fn>>

Cat ==
    \E argv \in CatArgs, a \in SelAnswers :
        Run("cat", argv, do_cat(argv, current_path, current_file, selected, a[1], a[2]))

Info ==
    \E argv \in InfoArgs, a \in SelAnswers :
        Run("info", argv, do_info(argv, current_path, current_file, selected, a[1], a[2]))

Create ==
    \E argv \in CreateArgs, oc \in {"fail", "ok", "ok_selects"}, o2 \in ReselOutcomes :
        Run("create", argv, do_create(argv, current_path, current_file, selected, oc, o2))

Mkdir ==
    \E argv \in CreateArgs, oc \in {"fail", "ok", "ok_selects"}, o2 \in ReselOutcomes :
        Run("mkdir", argv, do_mkdir(argv, current_path, current_file, selected, oc, o2))

Delete ==
    \E argv \in DeleteArgs, od \in {"fail", "ok"} :
        Run("delete", argv, do_delete(argv, current_path, current_file, selected, od))

Get ==
    \E argv \in GetArgs, a \in FileAnswers :
        Run("get", argv, do_get(argv, current_path, current_file, selected,
                                a[1], a[2], a[3], a[4]))

Put ==
    \E argv \in GetArgs, a \in FileAnswers :
        Run("put", argv, do_put(argv, current_path, current_file, selected,
                                a[1], a[2], a[3], a[4]))

UpdateBinary ==
    \E argv \in UpdateBinaryArgs, a \in IoAnswers :
        Run("update_binary", argv,
            do_update_binary(argv, current_path, current_file, selected,
                             a[1], a[2], a[3]))

UpdateRecord ==
    \E argv \in UpdateRecordArgs, a \in IoAnswers :
        Run("update_record", argv,
            do_update_record(argv, current_path, current_file, selected,
                             a[1], a[2], a[3]))

Asn1 ==
    \E argv \in Asn1Args, a \in IoAnswers :
        Run("asn1", argv, do_asn1(argv, current_path, current_file, selected,
                                  a[1], a[2], a[3]))

\* char prompt[40]
PromptBufSize == 40

\* The for loop of lines 1658-1663, from byte i (counted from 0) on.
RECURSIVE prompt_loop(_, _)
prompt_loop(path, i) ==
    IF i >= Len(path.value) THEN <<>>
    ELSE (IF i % 2 = 0 /\ i # 0 /\ path.type # SC_PATH_TYPE_DF_NAME
          THEN <<"/">> ELSE <<>>)
           \o sprintf_02X(path.value[i + 1])
           \o prompt_loop(path, i + 1)

\* The characters sprintf stores in prompt, the terminating NUL apart.
prompt_text(path) ==
    <<"O", "p", "e", "n", "S", "C", " ", "[">> \o prompt_loop(path, 0)
        \o <<"]", ">", " ">>

\* The prompt of the current address does not fit prompt[40]: sprintf
\* stores past its end, which is undefined behaviour.  The loop goes on as
\* if nothing had happened (the prompt is not modelled further), or the
\* process is killed.
PromptOverflow ==
    /\ pc = "prompt"
    /\ Len(prompt_text(current_path)) + 1 > PromptBufSize
    /\ pc' = "exit"
    /\ exit_code' \in {134, 139}
    /\ last' = [cmd |-> "prompt", argv |-> <<>>, ret |-> 0, selects |-> <<>>]
    /\ UNCHANGED <<ls_todo, card_type, current_path, current_file, selected,
                   hx, ag, rd, ln, pin, px, ap, fn>>

\* quit, exit, or the end of the input (lines 1666-1667 and 1680-1681).
Quit == Run("quit", <<>>, do_quit(current_path, selected))

Next ==
    \/ StartDefault \/ StartEmpty \/ StartAt
    \/ Cd \/ LsBegin \/ LsChild \/ LsReturn \/ Cat \/ Info
    \/ Create \/ Mkdir \/ Delete \/ Get \/ Put
    \/ UpdateBinary \/ UpdateRecord \/ Asn1 \/ Quit
    \/ PromptOverflow

Spec == Init /\ [][Next]_vars

-----------------------------------------------------------------------------
(* Properties of the shell.                                                 *)

\* A step of the shell loop that runs the command cmd to its return.
Ran(cmd) == pc = "prompt" /\ last'.cmd = cmd
Returned(cmd) == Ran(cmd) /\ pc' = "prompt"

\* C1: at every return to the prompt the file selected on the card is the
\* one current_path addresses, and current_file, when present, holds the
\* attributes of that file.
C1_PromptSelectionIsCurrent ==
    pc = "prompt" =>
        /\ selected = current_path
        /\ current_file # NULL => current_file = FileOf(current_path)

\* Where the invariant does hold: a command that selected anything and
\* returned to the prompt with a current path other than the all-zero one has
\* left the card on the current path, unless it is cd, info, update_binary or
\* update_record returning the failure of its select.
ReselectedOnReturn ==
    [][(/\ pc = "prompt"
        /\ pc' = "prompt"
        /\ last'.selects # <<>>
        /\ current_path' # ZeroPath) =>
           \/ selected' = current_path'
           \/ /\ last'.cmd \in {"cd", "info", "update_binary", "update_record"}
              /\ last'.ret # 0
              /\ last'.selects[Len(last'.selects)].r # 0]_vars

\* C2: ls leaves current_path and current_file alone, and after each listed
\* child is selected the current address is selected again, so that the
\* card is back on the current address when ls returns.
C2_LsRestoresSelection ==
    [][(pc = "ls" /\ pc' # "exit") =>
           /\ current_path' = current_path
           /\ current_file' = current_file
           /\ ls_todo # <<>> => selected' = current_path
           /\ pc' = "prompt" /\ last.selects # <<>> => selected' = current_path]_vars

\* ls never changes current_path or current_file while the process lives,
\* and re-selects a current address that is not the all-zero path.
LsKeepsNavigationState ==
    [][(pc = "ls" /\ pc' # "exit") =>
           /\ current_path' = current_path
           /\ current_file' = current_file
           /\ (ls_todo # <<>> /\ current_path # ZeroPath) => selected' = current_path]_vars

\* C3: cd is all-or-nothing.  When it returns 0, current_path is the path
\* its last select selected and current_file the attributes that select
\* returned; when it returns a failure, both are as they were.
C3_CdAllOrNothing ==
    [][Returned("cd") =>
           IF last'.ret = 0
           THEN /\ last'.selects # <<>>
                /\ last'.selects[Len(last'.selects)] = [path |-> current_path', r |-> 0]
                /\ selected' = current_path'
                /\ current_file' = FileOf(current_path')
           ELSE /\ current_path' = current_path
                /\ current_file' = current_file]_vars

\* cd has failed after the card answered its select, in a session with a
\* current directory.
C3_Witness ==
    /\ pc = "prompt"
    /\ last.cmd = "cd"
    /\ last.ret # 0
    /\ last.selects # <<>>
    /\ last.selects[1].r # 0
    /\ current_file # NULL
    /\ Len(current_path.value) >= 4

\* The first L-2 bytes of a path.
Parent(path) == [path EXCEPT !.value = Take(@, Len(@) - 2)]

\* C4: cd .. from a current path shorter than 4 bytes fails without a select
\* and leaves current_path alone; from a path-typed current path of length
\* L >= 4 it selects the first L-2 bytes, which become the current path
\* when that select succeeds.
C4_CdUp ==
    [][(Ran("cd") /\ last'.argv = <<T_UP>>) =>
           IF Len(current_path.value) < 4
           THEN /\ pc' = "prompt"
                /\ last'.ret # 0
                /\ last'.selects = <<>>
                /\ selected' = selected
                /\ current_path' = current_path
           ELSE current_path.type = SC_PATH_TYPE_PATH =>
                    /\ last'.selects # <<>>
                    /\ last'.selects[1].path = Parent(current_path)
                    /\ last'.selects[1].r = 0 =>
                           /\ last'.ret = 0
                           /\ current_path' = Parent(current_path)]_vars

\* cd .. has gone up from a path of 6 bytes to its first 4.
C4_Witness ==
    /\ pc = "prompt"
    /\ last.cmd = "cd"
    /\ last.argv = <<T_UP>>
    /\ last.ret = 0
    /\ current_path.type = SC_PATH_TYPE_PATH
    /\ Len(current_path.value) = 4
    /\ last.selects = <<[path |-> current_path, r |-> 0]>>

\* C5: from a DF-name current address of 1 to 16 bytes, cd .. selects 3F00
\* and, when that select succeeds, the current address becomes 3F00.
C5_CdUpFromAid ==
    [][(/\ Ran("cd")
        /\ last'.argv = <<T_UP>>
        /\ current_path.type = SC_PATH_TYPE_DF_NAME
        /\ Len(current_path.value) \in 1..SC_MAX_AID_SIZE) =>
           /\ last'.selects # <<>>
           /\ last'.selects[1].path = RootPath
           /\ last'.selects[1].r = 0 => current_path' = RootPath]_vars

\* The same for the DF names of 4 bytes and more.
CdUpFromLongAid ==
    [][(/\ Ran("cd")
        /\ last'.argv = <<T_UP>>
        /\ current_path.type = SC_PATH_TYPE_DF_NAME
        /\ Len(current_path.value) \in 4..SC_MAX_AID_SIZE) =>
           /\ last'.selects # <<>>
           /\ last'.selects[1].path = RootPath
           /\ last'.selects[1].r = 0 => current_path' = RootPath]_vars

\* An aid: token whose remainder has an odd number of hex digits, or none.
UndecodableAid(arg) ==
    /\ strncasecmp_eq(arg, AidPrefix)
    /\ \/ Len(HexDigitsOf(Drop(arg, Len(AidPrefix)))) % 2 = 1
       \/ Len(HexDigitsOf(Drop(arg, Len(AidPrefix)))) = 0

PathCommands == {"cd", "cat", "info", "get", "put", "asn1", "update_binary",
                 "update_record"}

\* C8: a command given an aid: token that does not decode as hex fails
\* without any select on the card.
C8_UndecodableAidAborts ==
    (/\ last.cmd \in PathCommands
     /\ last.argv # <<>>
     /\ UndecodableAid(last.argv[1])) =>
        /\ last.ret # 0
        /\ last.selects = <<>>

-----------------------------------------------------------------------------
(* SpecRead: the read loop of cat (read_and_util_print_binary_file, lines   *)
(* 316-343) and of get (lines 960-978) on a file of declared size           *)
(* file->size, one sc_read_binary call per step.  rd.log holds the calls:   *)
(* offset idx, requested count c, result r.                                 *)

\* sizeof(buf) in read_and_util_print_binary_file and in do_get.
CatBufSize == 128
GetBufSize == 256
BufSize(cmd) == IF cmd = "cat" THEN CatBufSize ELSE GetBufSize

MaxFileSize == 260

\* What sc_read_binary returns for a request of c bytes: all of them, fewer,
\* none, or an error code.
ReadAnswers(c) == {c, c - 1, 0, -1}

\* The value the command returns once its loop is over with result res (0,
\* or -1 for a failed read): do_cat drops the result of
\* read_and_util_print_binary_file and sets err = 0 (lines 413-417); do_get
\* returns -err (lines 979-995).
command_ret(cmd, res) == IF cmd = "cat" THEN 0 ELSE res

InitRead ==
    /\ rd \in {[pc |-> "loop", cmd |-> c, ctype |-> t, size |-> n, idx |-> 0,
                count |-> n, log |-> <<>>, res |-> 0, ret |-> 0] :
                   c \in {"cat", "get"},
                   t \in {SC_CARD_TYPE_BELPIC_EID, "OTHER"},
                   n \in 0..MaxFileSize}
    /\ hx = Idle
    /\ ag = Idle
    /\ ln = Idle
    /\ pin = Idle /\ px = Idle /\ ap = Idle /\ fn = Idle
    /\ ShellIdle

\* One iteration of "while (count)".
ReadChunk ==
    /\ rd.pc = "loop"
    /\ rd.count > 0
    /\ \E r \in ReadAnswers(Min(rd.count, BufSize(rd.cmd))) :
         LET c == Min(rd.count, BufSize(rd.cmd))
             log == Append(rd.log, [idx |-> rd.idx, c |-> c, r |-> r])
         IN  rd' = IF r < 0 \/ (r # c /\ rd.ctype # SC_CARD_TYPE_BELPIC_EID)
                   THEN [rd EXCEPT !.pc = "done", !.log = log, !.res = -1,
                                   !.ret = command_ret(rd.cmd, -1)]
                   ELSE IF r = 0 /\ rd.ctype = SC_CARD_TYPE_BELPIC_EID
                   THEN [rd EXCEPT !.pc = "done", !.log = log,
                                   !.ret = command_ret(rd.cmd, 0)]
                   ELSE [rd EXCEPT !.log = log, !.idx = @ + r, !.count = @ - r]
    /\ UNCHANGED <<hx, ag, ln, pin, px, ap, fn, shellVars>>

\* count has reached 0.
ReadEnd ==
    /\ rd.pc = "loop"
    /\ rd.count = 0
    /\ rd' = [rd EXCEPT !.pc = "done", !.ret = command_ret(rd.cmd, 0)]
    /\ UNCHANGED <<hx, ag, ln, pin, px, ap, fn, shellVars>>

NextRead == ReadChunk \/ ReadEnd

SpecRead == InitRead /\ [][NextRead]_vars

\* The bytes received by the first k calls of a log.
RECURSIVE Received(_, _)
Received(log, k) == IF k = 0 THEN 0 ELSE Received(log, k - 1) + log[k].r

NoCardError(log) == \A i \in 1..Len(log) : log[i].r >= 0

\* C10: on a card without the short-read exception and with no read error,
\* the calls are at contiguous offsets from 0, each the sum of the bytes
\* received so far, none requests more than the chunk bound, and when the
\* command succeeds the bytes received sum to the declared size.
C10_TransparentRead ==
    (/\ rd.pc # "idle"
     /\ rd.ctype # SC_CARD_TYPE_BELPIC_EID
     /\ NoCardError(rd.log)) =>
        /\ \A i \in 1..Len(rd.log) :
               /\ rd.log[i].idx = Received(rd.log, i - 1)
               /\ rd.log[i].c <= BufSize(rd.cmd)
        /\ (rd.pc = "done" /\ rd.ret = 0) => Received(rd.log, Len(rd.log)) = rd.size

\* The shape of the loop, on every card.
ReadCallsContiguousAndBounded ==
    rd.pc # "idle" =>
        \A i \in 1..Len(rd.log) :
            /\ NoCardError(SubSeq(rd.log, 1, i - 1)) =>
                   rd.log[i].idx = Received(rd.log, i - 1)
            /\ rd.log[i].c <= BufSize(rd.cmd)
            /\ rd.log[i].c >= 1

\* get, which returns the result of its loop, succeeds only with the
\* whole file.
GetSucceedsWithWholeFile ==
    (/\ rd.pc = "done"
     /\ rd.cmd = "get"
     /\ rd.ctype # SC_CARD_TYPE_BELPIC_EID
     /\ rd.ret = 0) =>
        Received(rd.log, Len(rd.log)) = rd.size
-----------------------------------------------------------------------------
(* SpecPut: the write loop of put (do_put, lines 1190-1213) from a local    *)
(* file of rd.src bytes to a card file of declared size rd.size, one        *)
(* sc_update_binary call per step.  rd.log holds the calls: offset idx,     *)
(* requested count c, result r.                                             *)

\* sizeof(buf) in do_put.
PutBufSize == 256

\* The declared sizes of the card file.
PutFileSizes == {0, 1, PutBufSize, PutBufSize + 1, MaxFileSize}

\* What sc_update_binary returns for a request of c bytes: all written,
\* fewer, or an error code.
WriteAnswers(c) == {c, c - 1, -1}

\* fread(buf, 1, c, outf) with idx bytes of the src bytes already read.
fread(c, src, idx) == Min(c, src - idx)

InitPut ==
    /\ rd \in {[pc |-> "loop", cmd |-> "put", size |-> n, src |-> s, idx |-> 0,
                count |-> n, log |-> <<>>, ret |-> 0] :
                   n \in PutFileSizes, s \in 0..MaxFileSize}
    /\ hx = Idle
    /\ ag = Idle
    /\ ln = Idle
    /\ pin = Idle /\ px = Idle /\ ap = Idle /\ fn = Idle
    /\ ShellIdle

\* One iteration of "while (count)".
PutChunk ==
    /\ rd.pc = "loop"
    /\ rd.count > 0
    /\ \E a \in {"all", "fewer", "error"} :
         LET c0 == Min(rd.count, PutBufSize)
             c == fread(c0, rd.src, rd.idx)
             count == IF c # c0 THEN c ELSE rd.count
             r == IF a = "all" THEN c ELSE IF a = "fewer" THEN c - 1 ELSE -1
             log == Append(rd.log, [idx |-> rd.idx, c |-> c, r |-> r])
         IN  /\ r \in WriteAnswers(c)
             /\ rd' = IF r < 0 \/ r # c
                      THEN [rd EXCEPT !.pc = "done", !.log = log, !.ret = -1]
                      ELSE [rd EXCEPT !.log = log, !.idx = @ + c,
                                      !.count = count - c]
    /\ UNCHANGED <<hx, ag, ln, pin, px, ap, fn, shellVars>>

\* count has reached 0: err = 0 and return -err (lines 1214-1225).
PutEnd ==
    /\ rd.pc = "loop"
    /\ rd.count = 0
    /\ rd' = [rd EXCEPT !.pc = "done", !.ret = 0]
    /\ UNCHANGED <<hx, ag, ln, pin, px, ap, fn, shellVars>>

NextPut == PutChunk \/ PutEnd

SpecPut == InitPut /\ [][NextPut]_vars

\* The bytes requested by the first k calls of a log.
RECURSIVE Requested(_, _)
Requested(log, k) == IF k = 0 THEN 0 ELSE Requested(log, k - 1) + log[k].c

\* C11: put writes chunks no larger than the chunk bound at contiguous
\* offsets, fails when the card reports a written length other than the
\* requested one, and goes on until the source is exhausted: on success the
\* bytes written are as many as the source has.
C11_PutWritesWholeSource ==
    rd.pc # "idle" =>
        /\ \A i \in 1..Len(rd.log) :
               /\ rd.log[i].c <= PutBufSize
               /\ rd.log[i].idx = Requested(rd.log, i - 1)
        /\ (rd.pc = "done" /\ \E i \in 1..Len(rd.log) : rd.log[i].r # rd.log[i].c)
               => rd.ret < 0
        /\ (rd.pc = "done" /\ rd.ret = 0) => Requested(rd.log, Len(rd.log)) = rd.src

\* What does hold: the chunks are bounded and contiguous, a wrong written
\* length fails the command, and on success the bytes written are the
\* source's or the declared file size, whichever is smaller.
PutWritesUpToFileSize ==
    rd.pc # "idle" =>
        /\ \A i \in 1..Len(rd.log) :
               /\ rd.log[i].c <= PutBufSize
               /\ rd.log[i].idx = Requested(rd.log, i - 1)
        /\ (rd.pc = "done" /\ \E i \in 1..Len(rd.log) : rd.log[i].r # rd.log[i].c)
               => rd.ret < 0
        /\ (rd.pc = "done" /\ rd.ret = 0)
               => Requested(rd.log, Len(rd.log)) = Min(rd.src, rd.size)
-----------------------------------------------------------------------------
(* SpecLine: one pass of main's loop over an input line (lines 1665-1678):  *)
(* parse_line splits it into cargv, ambiguous_match looks the first token   *)
(* up in cmds, and the handler found is called with the other tokens.       *)

\* DIM(cargv), the maxargc given to parse_line.
DIM_cargv == 260

WhiteSpace == {" ", "\t", "\n"}

\* in + strspn(in, " \t\n") and in + strcspn(in, reject), as indexes.
RECURSIVE strspn_end(_, _, _)
strspn_end(in, p, accept) ==
    IF p <= Len(in) /\ in[p] \in accept THEN strspn_end(in, p + 1, accept) ELSE p
RECURSIVE strcspn_end(_, _, _)
strcspn_end(in, p, reject) ==
    IF p <= Len(in) /\ in[p] \notin reject THEN strcspn_end(in, p + 1, reject) ELSE p

\* One iteration of the loop of parse_line, lines 1503-1521, from the index p
\* of the line on: "end" when only whitespace is left, "bad" for a quote that
\* is not closed, otherwise the token found and the index to go on from (the
\* character after the token is overwritten with the terminator).
parse_token(in, p) ==
    LET found(start, end) ==
            [kind |-> "token", token |-> SubSeq(in, start, end - 1),
             next |-> IF end <= Len(in) THEN end + 1 ELSE end]
        quoted(start, close) ==
            IF close > Len(in) THEN [kind |-> "bad", token |-> <<>>, next |-> close]
            ELSE found(start, close + 1)
        token(start) ==
            IF start > Len(in) THEN [kind |-> "end", token |-> <<>>, next |-> start]
            ELSE IF in[start] = Quote
                 THEN quoted(start, strcspn_end(in, start + 1, {Quote}))
                 ELSE found(start, strcspn_end(in, start, WhiteSpace))
    IN  token(strspn_end(in, p, WhiteSpace))

\* The command table, lines 1463-1489.
cmds ==
    << [name |-> <<"l", "s">>, func |-> "do_ls"],
       [name |-> <<"c", "d">>, func |-> "do_cd"],
       [name |-> <<"c", "a", "t">>, func |-> "do_cat"],
       [name |-> <<"i", "n", "f", "o">>, func |-> "do_info"],
       [name |-> <<"c", "r", "e", "a", "t", "e">>, func |-> "do_create"],
       [name |-> <<"d", "e", "l", "e", "t", "e">>, func |-> "do_delete"],
       [name |-> <<"r", "m">>, func |-> "do_delete"],
       [name |-> <<"v", "e", "r", "i", "f", "y">>, func |-> "do_verify"],
       [name |-> <<"c", "h", "a", "n", "g", "e">>, func |-> "do_change"],
       [name |-> <<"u", "n", "b", "l", "o", "c", "k">>, func |-> "do_unblock"],
       [name |-> <<"p", "u", "t">>, func |-> "do_put"],
       [name |-> <<"g", "e", "t">>, func |-> "do_get"],
       [name |-> <<"d", "o", "_", "g", "e", "t">>, func |-> "do_get_data"],
       [name |-> <<"d", "o", "_", "p", "u", "t">>, func |-> "do_put_data"],
       [name |-> <<"m", "k", "d", "i", "r">>, func |-> "do_mkdir"],
       [name |-> <<"e", "r", "a", "s", "e">>, func |-> "do_erase"],
       [name |-> <<"r", "a", "n", "d", "o", "m">>, func |-> "do_random"],
       [name |-> <<"q", "u", "i", "t">>, func |-> "do_quit"],
       [name |-> <<"e", "x", "i", "t">>, func |-> "do_quit"],
       [name |-> <<"u", "p", "d", "a", "t", "e", "_", "r", "e", "c", "o", "r", "d">>,
        func |-> "do_update_record"],
       [name |-> <<"u", "p", "d", "a", "t", "e", "_", "b", "i", "n", "a", "r", "y">>,
        func |-> "do_update_binary"],
       [name |-> <<"d", "e", "b", "u", "g">>, func |-> "do_debug"],
       [name |-> <<"a", "p", "d", "u">>, func |-> "do_apdu"],
       [name |-> <<"a", "s", "n", "1">>, func |-> "do_asn1"] >>

\* strncasecmp(s1, s2, n) == 0: the first n characters agree, a string that
\* ends before them agreeing only with one that ends at the same place.
strncasecmp_n_eq(s1, s2, n) ==
    \A i \in 1..n :
        \/ i > Len(s1) /\ i > Len(s2)
        \/ /\ i <= Len(s1)
           /\ i <= Len(s2)
           /\ tolower(s1[i]) = tolower(s2[i])

\* ambiguous_match, lines 106-123: the loop over the table from entry i on; 0
\* stands for the NULL last_match.  The first variant returns the first entry
\* that matches, however many do.
ambiguous_match_first_wins(table, cmd) ==
    LET first == {k \in 1..Len(table) : strncasecmp_n_eq(cmd, table[k].name, Len(cmd))}
    IN  IF first = {} THEN 0 ELSE CHOOSE k \in first : \A j \in first : k <= j

RECURSIVE ambiguous_match_loop(_, _, _, _, _)
ambiguous_match_loop(table, cmd, i, last_match, matches) ==
    IF i > Len(table)
    THEN IF matches > 1 THEN 0 ELSE last_match
    ELSE IF strncasecmp_n_eq(cmd, table[i].name, Len(cmd))
         THEN ambiguous_match_loop(table, cmd, i + 1, i, matches + 1)
         ELSE ambiguous_match_loop(table, cmd, i + 1, last_match, matches)

ambiguous_match(table, cmd) == ambiguous_match_loop(table, cmd, 1, 0, 0)

MaxLineLen == 5
LineAlphabet == {"c", "a", "t", "C", " ", Quote}

\* A line of DIM(cargv) words followed by a token that opens a quote and
\* never closes it.
LongLine ==
    <<"c", "a", " ">>
    \o [i \in 1..(2 * (DIM_cargv - 1)) |-> IF i % 2 = 1 THEN "c" ELSE " "]
    \o <<Quote, "a">>

NoFunc == "none"

InitLine ==
    /\ ln \in {[pc |-> "parse", line |-> l, in |-> 1, cargc |-> 0, cargv |-> <<>>,
                func |-> NoFunc, args |-> <<>>] :
               l \in SeqsUpTo(LineAlphabet, MaxLineLen) \cup {LongLine}}
    /\ hx = Idle /\ ag = Idle /\ rd = Idle /\ pin = Idle /\ px = Idle /\ ap = Idle /\ fn = Idle
    /\ ShellIdle

\* parse_line, lines 1500-1523, one iteration of its loop at a time, and the
\* test of its result by main, lines 1668-1670: back to the prompt when it
\* returns no token.
ParseLine ==
    LET return(argc) ==
            ln' = [ln EXCEPT !.pc = IF argc < 1 THEN "prompt" ELSE "parsed",
                             !.cargc = argc]
        step(t) ==
            IF t.kind = "end" THEN return(Len(ln.cargv))
            ELSE IF t.kind = "bad" THEN return(0)
            ELSE ln' = [ln EXCEPT !.cargv = Append(@, t.token), !.in = t.next]
    IN  /\ ln.pc = "parse"
        /\ IF Len(ln.cargv) >= DIM_cargv THEN return(Len(ln.cargv))
           ELSE step(parse_token(ln.line, ln.in))
        /\ UNCHANGED <<hx, ag, rd, pin, px, ap, fn, shellVars>>

\* main, lines 1673-1678: the look-up of cargv[0] and the call of the handler
\* with cargc - 1 and cargv + 1.
Dispatch ==
    LET found(cmd) ==
            ln' = IF cmd = 0 THEN [ln EXCEPT !.pc = "usage"]
                  ELSE [ln EXCEPT !.pc = "called",
                                  !.func = cmds[cmd].func,
                                  !.args = SubSeq(ln.cargv, 2, ln.cargc)]
    IN  /\ ln.pc = "parsed"
        /\ found(ambiguous_match(cmds, ln.cargv[1]))
        /\ UNCHANGED <<hx, ag, rd, pin, px, ap, fn, shellVars>>

NextLine == ParseLine \/ Dispatch

SpecLine == InitLine /\ [][NextLine]_vars

\* p is a prefix of s when the case of letters is ignored.
IsPrefixIgnoringCase(p, s) ==
    /\ Len(p) <= Len(s)
    /\ \A i \in 1..Len(p) : tolower(p[i]) = tolower(s[i])

Matching(token) == {k \in 1..Len(cmds) : IsPrefixIgnoringCase(token, cmds[k].name)}

\* C12: a handler is invoked if and only if the first token of the line is,
\* ignoring case, a prefix of exactly one name of the command table; the
\* handler invoked is the one of that entry, and it is called with the tokens
\* that follow the first.  A token matching no name or several names invokes
\* nothing.
C12_DispatchUniquePrefix ==
    ln.pc \in {"called", "usage"} =>
        /\ ln.pc = "called" <=> Cardinality(Matching(ln.cargv[1])) = 1
        /\ ln.pc = "called" =>
              /\ \A k \in Matching(ln.cargv[1]) : ln.func = cmds[k].func
              /\ ln.args = Tail(ln.cargv)
        /\ ln.pc = "usage" => ln.func = NoFunc

\* "ca" is a prefix of cat alone and calls do_cat with the token after it.
C12_Witness ==
    /\ ln.pc = "called"
    /\ ln.cargv = << <<"C", "a">>, <<"t">> >>
    /\ ln.func = "do_cat"
    /\ ln.args = << <<"t">> >>

\* "c" is a prefix of cd, cat, create and change: nothing is called.
AmbiguousPrefixCallsNothing ==
    (ln.pc \in {"called", "usage"} /\ ln.cargv[1] = <<"c">>) =>
        ln.pc = "usage" /\ Cardinality(Matching(<<"c">>)) = 4

\* No name of the table is a prefix of another name; in a table where one is,
\* the shorter name typed in full matches both and selects neither.
ExactNameHasNoPriority ==
    /\ \A j, k \in 1..Len(cmds) :
          j # k => ~IsPrefixIgnoringCase(cmds[j].name, cmds[k].name)
    /\ ambiguous_match(<< [name |-> <<"c", "a">>, func |-> "f"],
                          [name |-> <<"c", "a", "t">>, func |-> "g"] >>,
                       <<"c", "a">>) = 0

\* The positions of the double quotes of a line, and how many of them are at
\* or before a position.
QuoteAt(line) == {i \in 1..Len(line) : line[i] = Quote}
QuoteRank(line, i) == Cardinality({j \in QuoteAt(line) : j <= i})
StartsToken(line, i) == i = 1 \/ line[i - 1] \in WhiteSpace

\* Every quote that opens a token follows whitespace or starts the line, each
\* is closed by the next quote, and the last one is left open.
UnterminatedQuoteToken(line) ==
    /\ Cardinality(QuoteAt(line)) % 2 = 1
    /\ \A i \in QuoteAt(line) : QuoteRank(line, i) % 2 = 1 => StartsToken(line, i)

\* C13: a line in which a token opens a double quote that is never closed is
\* rejected as a whole, whatever tokens precede that token: no handler is
\* invoked and the navigation state and the selection stay as they were.
C13_UnterminatedQuoteRejectsLine ==
    (ln.pc # "idle" /\ UnterminatedQuoteToken(ln.line)) =>
        /\ ln.pc \in {"parse", "prompt"}
        /\ ln.func = NoFunc
        /\ ShellIdle

\* The same for the lines with fewer tokens than cargv has entries.
UnterminatedQuoteRejectsShortLine ==
    (ln.pc # "idle" /\ UnterminatedQuoteToken(ln.line) /\ Len(ln.line) < 2 * DIM_cargv) =>
        /\ ln.pc \in {"parse", "prompt"}
        /\ ln.func = NoFunc
        /\ ShellIdle

\* A word and then an open quote: rejected.
UnterminatedQuoteAfterWord ==
    /\ ln.pc = "prompt"
    /\ ln.line = <<"c", "a", " ", Quote, "t">>
-----------------------------------------------------------------------------
(* SpecPin: do_verify, do_change and do_unblock applied to argument lists,  *)
(* on a reader with or without a PIN pad; pin.calls is what the card was    *)
(* asked.                                                                   *)

VerifyBufSize == 64
ChangeBufSize == 30
UnblockBufSize == 30

SC_ERROR_INVALID_ARGUMENTS == -1300
SC_ERROR_BUFFER_TOO_SMALL == -1303
SC_ERROR_PIN_CODE_INCORRECT == -1214
SC_ERROR_CARD_CMD_FAILED == -1200

\* sc_hex_to_bin of libopensc: bytes of one or two hex digits, optionally
\* separated by colons, into a buffer with room for left more bytes.
RECURSIVE sc_hex_to_bin_loop(_, _, _)
sc_hex_to_bin_loop(in, out, left) ==
    LET store(byte, rest) ==
            IF left <= 0 THEN [r |-> SC_ERROR_BUFFER_TOO_SMALL, out |-> out]
            ELSE sc_hex_to_bin_loop(IF rest # <<>> /\ Head(rest) = ":" THEN Tail(rest) ELSE rest,
                                    Append(out, byte), left - 1)
        second(hi, rest) ==
            IF rest = <<>> \/ Head(rest) = ":" THEN store(hi, rest)
            ELSE IF ~isxdigit(Head(rest)) THEN [r |-> SC_ERROR_INVALID_ARGUMENTS, out |-> out]
            ELSE store(16 * hi + HexVal(Head(rest)), Tail(rest))
    IN  IF in = <<>> THEN [r |-> 0, out |-> out]
        ELSE IF Head(in) = ":" THEN store(0, in)
        ELSE IF ~isxdigit(Head(in)) THEN [r |-> SC_ERROR_INVALID_ARGUMENTS, out |-> out]
        ELSE second(HexVal(Head(in)), Tail(in))

sc_hex_to_bin(in, outlen) == sc_hex_to_bin_loop(in, <<>>, outlen)

\* The loop that copies a quoted value: the characters after the opening
\* quote up to the next quote or the end, at most max of them.
RECURSIVE quoted_value(_, _)
quoted_value(s, max) ==
    IF max = 0 \/ s = <<>> \/ Head(s) = Quote THEN <<>>
    ELSE <<Head(s)>> \o quoted_value(Tail(s), max - 1)

\* A value of a PIN command: first the quoted loop or sc_hex_to_bin.
pin_value(arg, size) ==
    IF arg[1] = Quote THEN [r |-> 0, out |-> quoted_value(Tail(arg), size)]
    ELSE sc_hex_to_bin(arg, size)

\* A buffer argument of a card call: a null pointer, or a pointer to len bytes.
NullArg == [null |-> TRUE, len |-> 0, data |-> <<>>]
BufArg(bytes) == [null |-> FALSE, len |-> Len(bytes), data |-> bytes]
\* len ? buf : NULL, len
BufArgOrNull(bytes) == IF Len(bytes) # 0 THEN BufArg(bytes) ELSE NullArg

typeNames ==
    << [name |-> <<"C", "H", "V">>, type |-> "SC_AC_CHV"],
       [name |-> <<"K", "E", "Y">>, type |-> "SC_AC_AUT"],
       [name |-> <<"A", "U", "T">>, type |-> "SC_AC_AUT"],
       [name |-> <<"P", "R", "O">>, type |-> "SC_AC_PRO"] >>
SC_AC_NONE == "SC_AC_NONE"

pin_type(arg) ==
    LET found == {i \in 1..Len(typeNames) : strncasecmp_n_eq(arg, typeNames[i].name, 3)}
    IN  IF found = {} THEN SC_AC_NONE
        ELSE typeNames[CHOOSE i \in found : \A j \in found : i <= j].type

\* What a handler of a PIN command leaves: its return value and the calls
\* it made to the card.
PinReturn(ret, calls) == [ret |-> ret, calls |-> calls]
card_ret(r) == IF r # 0 THEN -1 ELSE 0

\* do_verify, lines 665-749; pinpad is SC_READER_CAP_PIN_PAD of the reader,
\* r the card's answer.  The first variant lacks the test of the capability.
do_verify_pad_unchecked(argv, pinpad, r) ==
    LET sent(data) == PinReturn(card_ret(r), << data >>)
        cmd(type, ref, use_pinpad, pin1) ==
            sent([op |-> "sc_pin_cmd", cmd |-> "SC_PIN_CMD_VERIFY", type |-> type,
                  ref |-> ref, use_pinpad |-> use_pinpad, pin1 |-> pin1])
        decoded(type, ref, v) ==
            IF v.r # 0 THEN PinReturn(-1, <<>>)
            ELSE cmd(type, ref, FALSE, BufArg(v.out))
        typed(type) ==
            IF type = SC_AC_NONE THEN PinReturn(-1, <<>>)
            ELSE IF ~HasNumber(Drop(argv[1], 3)) THEN PinReturn(-1, <<>>)
            ELSE IF Len(argv) < 2
                 THEN cmd(type, atoi(Drop(argv[1], 3)), TRUE, NullArg)
            ELSE decoded(type, atoi(Drop(argv[1], 3)), pin_value(argv[2], VerifyBufSize))
    IN  IF Len(argv) < 1 \/ Len(argv) > 2 THEN PinReturn(-1, <<>>)
        ELSE typed(pin_type(argv[1]))

do_verify(argv, pinpad, r) ==
    LET sent(data) == PinReturn(card_ret(r), << data >>)
        cmd(type, ref, use_pinpad, pin1) ==
            sent([op |-> "sc_pin_cmd", cmd |-> "SC_PIN_CMD_VERIFY", type |-> type,
                  ref |-> ref, use_pinpad |-> use_pinpad, pin1 |-> pin1])
        decoded(type, ref, v) ==
            IF v.r # 0 THEN PinReturn(-1, <<>>)
            ELSE cmd(type, ref, FALSE, BufArg(v.out))
        typed(type) ==
            IF type = SC_AC_NONE THEN PinReturn(-1, <<>>)
            ELSE IF ~HasNumber(Drop(argv[1], 3)) THEN PinReturn(-1, <<>>)
            ELSE IF Len(argv) < 2
                 THEN IF ~pinpad THEN PinReturn(-1, <<>>)
                      ELSE cmd(type, atoi(Drop(argv[1], 3)), TRUE, NullArg)
            ELSE decoded(type, atoi(Drop(argv[1], 3)), pin_value(argv[2], VerifyBufSize))
    IN  IF Len(argv) < 1 \/ Len(argv) > 2 THEN PinReturn(-1, <<>>)
        ELSE typed(pin_type(argv[1]))

\* do_change, lines 752-830.
do_change(argv, r) ==
    LET call(ref, old, new) ==
            PinReturn(card_ret(r),
                      << [op |-> "sc_change_reference_data", type |-> "SC_AC_CHV",
                          ref |-> ref, old |-> BufArgOrNull(old), new |-> BufArgOrNull(new)] >>)
        new_decoded(ref, old, v) ==
            IF v.r # 0 THEN PinReturn(-1, <<>>) ELSE call(ref, old, v.out)
        new_value(ref, old, values) ==
            IF Len(values) = 0 THEN call(ref, old, <<>>)
            ELSE new_decoded(ref, old, pin_value(values[1], ChangeBufSize))
        old_decoded(ref, v, values) ==
            IF v.r # 0 THEN PinReturn(-1, <<>>) ELSE new_value(ref, v.out, values)
        old_value(ref, values) ==
            IF Len(values) <= 1 THEN new_value(ref, <<>>, values)
            ELSE old_decoded(ref, pin_value(values[1], ChangeBufSize), Tail(values))
    IN  IF Len(argv) < 1 \/ Len(argv) > 3 THEN PinReturn(-1, <<>>)
        ELSE IF ~strncasecmp_n_eq(argv[1], <<"C", "H", "V">>, 3) THEN PinReturn(-1, <<>>)
        ELSE IF ~HasNumber(Drop(argv[1], 3)) THEN PinReturn(-1, <<>>)
        ELSE old_value(atoi(Drop(argv[1], 3)), Tail(argv))

\* do_unblock, lines 833-915.  The first variant hands the new value over as
\* do_change does: newpinlen ? newpin : NULL.
do_unblock_empty_as_null(argv, r) ==
    LET call(ref, puk, new) ==
            PinReturn(card_ret(r),
                      << [op |-> "sc_reset_retry_counter", type |-> "SC_AC_CHV",
                          ref |-> ref, puk |-> puk, new |-> new] >>)
        new_decoded(ref, puk, v) ==
            IF v.r # 0 THEN PinReturn(-1, <<>>) ELSE call(ref, puk, BufArgOrNull(v.out))
        new_value(ref, puk, values) ==
            IF Len(values) = 0 THEN call(ref, puk, NullArg)
            ELSE new_decoded(ref, puk, pin_value(values[1], UnblockBufSize))
        puk_decoded(ref, v, values) ==
            IF v.r # 0 THEN PinReturn(-1, <<>>) ELSE new_value(ref, BufArg(v.out), values)
        puk_value(ref, values) ==
            IF Len(values) = 0 THEN new_value(ref, NullArg, values)
            ELSE puk_decoded(ref, pin_value(values[1], UnblockBufSize), Tail(values))
    IN  IF Len(argv) < 1 \/ Len(argv) > 3 THEN PinReturn(-1, <<>>)
        ELSE IF ~strncasecmp_n_eq(argv[1], <<"C", "H", "V">>, 3) THEN PinReturn(-1, <<>>)
        ELSE IF ~HasNumber(Drop(argv[1], 3)) THEN PinReturn(-1, <<>>)
        ELSE puk_value(atoi(Drop(argv[1], 3)), Tail(argv))

do_unblock(argv, r) ==
    LET call(ref, puk, new) ==
            PinReturn(card_ret(r),
                      << [op |-> "sc_reset_retry_counter", type |-> "SC_AC_CHV",
                          ref |-> ref, puk |-> puk, new |-> new] >>)
        new_decoded(ref, puk, v) ==
            IF v.r # 0 THEN PinReturn(-1, <<>>) ELSE call(ref, puk, BufArg(v.out))
        new_value(ref, puk, values) ==
            IF Len(values) = 0 THEN call(ref, puk, NullArg)
            ELSE new_decoded(ref, puk, pin_value(values[1], UnblockBufSize))
        puk_decoded(ref, v, values) ==
            IF v.r # 0 THEN PinReturn(-1, <<>>) ELSE new_value(ref, BufArg(v.out), values)
        puk_value(ref, values) ==
            IF Len(values) = 0 THEN new_value(ref, NullArg, values)
            ELSE puk_decoded(ref, pin_value(values[1], UnblockBufSize), Tail(values))
    IN  IF Len(argv) < 1 \/ Len(argv) > 3 THEN PinReturn(-1, <<>>)
        ELSE IF ~strncasecmp_n_eq(argv[1], <<"C", "H", "V">>, 3) THEN PinReturn(-1, <<>>)
        ELSE IF ~HasNumber(Drop(argv[1], 3)) THEN PinReturn(-1, <<>>)
        ELSE puk_value(atoi(Drop(argv[1], 3)), Tail(argv))

T_CHV1 == <<"C", "H", "V", "1">>
T_KEY2 == <<"k", "e", "y", "2">>
T_CHV == <<"C", "H", "V">>
T_PIN1 == <<"P", "I", "N", "1">>
T_EMPTY == <<Quote, Quote>>
T_QUOTED_A == <<Quote, "a", Quote>>
T_HEX31 == <<"3", "1">>
T_HEXBAD == <<"3", "x">>

PinTypes == {T_CHV1, T_KEY2, T_CHV, T_PIN1}
PinValues == {T_EMPTY, T_QUOTED_A, T_HEX31, T_HEXBAD}
MaxPinValues == 3
PinArgs == {<<>>} \cup {<<t>> \o v : t \in PinTypes, v \in SeqsUpTo(PinValues, MaxPinValues)}
PinAnswers == {0, SC_ERROR_PIN_CODE_INCORRECT, SC_ERROR_CARD_CMD_FAILED}

InitPin ==
    /\ pin \in {[pc |-> "prompt", pinpad |-> p, cmd |-> "none", argv |-> <<>>,
                 ret |-> 0, calls |-> <<>>] : p \in BOOLEAN}
    /\ hx = Idle /\ ag = Idle /\ rd = Idle /\ ln = Idle
    /\ px = Idle /\ ap = Idle /\ fn = Idle
    /\ ShellIdle

PinRun(cmd, argv, res) ==
    /\ pin.pc = "prompt"
    /\ pin' = [pin EXCEPT !.pc = "returned", !.cmd = cmd, !.argv = argv,
                          !.ret = res.ret, !.calls = res.calls]
    /\ UNCHANGED <<hx, ag, rd, ln, px, ap, fn, shellVars>>

Verify == \E argv \in PinArgs, r \in PinAnswers :
    PinRun("verify", argv, do_verify(argv, pin.pinpad, r))

Change == \E argv \in PinArgs, r \in PinAnswers :
    PinRun("change", argv, do_change(argv, r))

Unblock == \E argv \in PinArgs, r \in PinAnswers :
    PinRun("unblock", argv, do_unblock(argv, r))

\* The handler has returned to main's loop; the buffers and the request of
\* the command were its locals.
PinPrompt ==
    /\ pin.pc = "returned"
    /\ pin' = [pc |-> "prompt", pinpad |-> pin.pinpad, cmd |-> "none", argv |-> <<>>,
               ret |-> 0, calls |-> <<>>]
    /\ UNCHANGED <<hx, ag, rd, ln, px, ap, fn, shellVars>>

NextPin == Verify \/ Change \/ Unblock \/ PinPrompt

SpecPin == InitPin /\ [][NextPin]_vars

\* A PIN command has returned after asking the card.
PinAsked(cmd) == pin.pc = "returned" /\ pin.cmd = cmd /\ pin.calls # <<>>

\* A value handed to the card as present with no bytes, and as absent.
PresentEmpty(a) == ~a.null /\ a.len = 0
Absent(a) == a.null /\ a.len = 0

\* C14: unblock keeps the empty new value and the absent one apart: with a
\* PUK and "" the card gets a new PIN that is present and zero bytes long,
\* with a PUK and no new value it gets none (null, 0).
C14_UnblockEmptyIsNotAbsent ==
    PinAsked("unblock") =>
        /\ (Len(pin.argv) = 3 /\ pin.argv[3] = T_EMPTY) => PresentEmpty(pin.calls[1].new)
        /\ Len(pin.argv) = 2 => Absent(pin.calls[1].new)
        /\ Len(pin.calls) = 1

\* unblock CHV1 31 "" has asked the card, with the empty new PIN present.
C14_Witness ==
    /\ PinAsked("unblock")
    /\ pin.argv = <<T_CHV1, T_HEX31, T_EMPTY>>
    /\ pin.calls[1].puk = BufArg(<<49>>)
    /\ PresentEmpty(pin.calls[1].new)

\* unblock CHV1 31 has asked the card, with no new PIN.
UnblockWithoutNewPin ==
    /\ PinAsked("unblock")
    /\ pin.argv = <<T_CHV1, T_HEX31>>
    /\ Absent(pin.calls[1].new)

\* The values a PIN command hands to the card, in the order of the command
\* line, and the values of the command line each of them comes from (0 when
\* the command line has none for it).
CardValues(call) ==
    IF call.op = "sc_pin_cmd" THEN <<call.pin1>>
    ELSE IF call.op = "sc_change_reference_data" THEN <<call.old, call.new>>
    ELSE <<call.puk, call.new>>
ValueOf(cmd, argv) ==
    IF cmd = "verify" THEN <<IF Len(argv) >= 2 THEN 2 ELSE 0>>
    ELSE IF cmd = "change"
    THEN IF Len(argv) = 3 THEN <<2, 3>>
         ELSE IF Len(argv) = 2 THEN <<0, 2>> ELSE <<0, 0>>
    ELSE <<IF Len(argv) >= 2 THEN 2 ELSE 0, IF Len(argv) >= 3 THEN 3 ELSE 0>>

\* C15: in verify, change and unblock and in every position of a value, ""
\* reaches the card as a present value of zero bytes and an omitted value as
\* an absent one.
C15_EmptyIsNotAbsentAnywhere ==
    (pin.pc = "returned" /\ pin.calls # <<>>) =>
        \A i \in 1..Len(CardValues(pin.calls[1])) :
            /\ ValueOf(pin.cmd, pin.argv)[i] = 0 => Absent(CardValues(pin.calls[1])[i])
            /\ (ValueOf(pin.cmd, pin.argv)[i] # 0
                /\ pin.argv[ValueOf(pin.cmd, pin.argv)[i]] = T_EMPTY)
               => PresentEmpty(CardValues(pin.calls[1])[i])

\* The same for verify and unblock alone.
EmptyIsNotAbsentInVerifyAndUnblock ==
    (pin.pc = "returned" /\ pin.calls # <<>> /\ pin.cmd # "change") =>
        \A i \in 1..Len(CardValues(pin.calls[1])) :
            /\ ValueOf(pin.cmd, pin.argv)[i] = 0 => Absent(CardValues(pin.calls[1])[i])
            /\ (ValueOf(pin.cmd, pin.argv)[i] # 0
                /\ pin.argv[ValueOf(pin.cmd, pin.argv)[i]] = T_EMPTY)
               => PresentEmpty(CardValues(pin.calls[1])[i])

\* change hands every value of zero bytes over as absent.
ChangeEmptyIsAbsent ==
    PinAsked("change") =>
        \A i \in 1..2 :
            (ValueOf("change", pin.argv)[i] # 0
             /\ pin.argv[ValueOf("change", pin.argv)[i]] = T_EMPTY)
            => Absent(CardValues(pin.calls[1])[i])

\* verify with a well-formed reference and no value.
VerifyWithoutValue ==
    /\ pin.pc = "returned"
    /\ pin.cmd = "verify"
    /\ Len(pin.argv) = 1
    /\ pin_type(pin.argv[1]) # SC_AC_NONE
    /\ HasNumber(Drop(pin.argv[1], 3))

\* C16: verify with no value fails on a reader without PIN pad and sends no
\* PIN command to the card; on a reader with PIN pad it sends exactly one
\* verify, flagged for the PIN pad and carrying no PIN data.
C16_VerifyWithoutValueNeedsPinPad ==
    VerifyWithoutValue =>
        /\ ~pin.pinpad => (pin.ret < 0 /\ pin.calls = <<>>)
        /\ pin.pinpad =>
              /\ Len(pin.calls) = 1
              /\ pin.calls[1].cmd = "SC_PIN_CMD_VERIFY"
              /\ pin.calls[1].use_pinpad
              /\ Absent(pin.calls[1].pin1)

\* verify CHV1 has failed on a reader without PIN pad.
C16_Witness ==
    /\ VerifyWithoutValue
    /\ pin.argv = <<T_CHV1>>
    /\ ~pin.pinpad
    /\ pin.ret = -1
    /\ pin.calls = <<>>

\* verify key2 has asked the card through the PIN pad.
VerifyThroughPinPad ==
    /\ VerifyWithoutValue
    /\ pin.argv = <<T_KEY2>>
    /\ pin.pinpad
    /\ pin.calls[1].use_pinpad
    /\ pin.calls[1].type = "SC_AC_AUT"
    /\ pin.calls[1].ref = 2
-----------------------------------------------------------------------------
(* SpecDie: the process around select_current_path_or_die and die.  A       *)
(* command selects another file, the current address is selected again,     *)
(* and when that fails die(1) releases current_file, the card and the       *)
(* context one after the other and exits.  px.ops counts the commands sent  *)
(* to the card, px.cmds the commands of the shell that were started.        *)

MaxCommands == 3

DieCurrents == {ZeroPath, RootPath, DeepPath(1), AidPath(1)}
TransientSelections == {Unknown, RootPath, DeepPath(1)}

InitDie ==
    /\ \E p \in DieCurrents :
         px \in {[pc |-> "prompt", cp |-> p, cf |-> f, sel |-> p, card |-> "locked",
                  ctx |-> "held", exit_code |-> 0, r |-> 0, ops |-> 0, cmds |-> 0] :
                 f \in {NULL, FileOf(p)}}
    /\ hx = Idle /\ ag = Idle /\ rd = Idle /\ ln = Idle /\ pin = Idle
    /\ ap = Idle /\ fn = Idle
    /\ ShellIdle

\* A command selects some other file, or loses the selection, and is about
\* to call select_current_path_or_die.
DieCommand ==
    /\ px.pc = "prompt"
    /\ px.cmds < MaxCommands
    /\ \E s \in TransientSelections :
         px' = [px EXCEPT !.pc = "command", !.sel = s, !.ops = @ + 1, !.cmds = @ + 1]
    /\ UNCHANGED <<hx, ag, rd, ln, pin, ap, fn, shellVars>>

\* select_current_path_or_die, lines 95-104, up to the call of die(1).
Reselect ==
    LET done(res) ==
            px' = [px EXCEPT !.pc = IF res.kind = "exit" THEN "die" ELSE "prompt",
                             !.exit_code = IF res.kind = "exit" THEN res.ret ELSE @,
                             !.sel = res.sel,
                             !.r = IF res.selects = <<>> THEN 0 ELSE res.selects[1].r,
                             !.ops = @ + Len(res.selects)]
    IN  /\ px.pc = "command"
        /\ \E o \in SelOutcomes :
             done(select_current_path_or_die(0, px.cp, px.cf, px.sel, <<>>, o))
        /\ UNCHANGED <<hx, ag, rd, ln, pin, ap, fn, shellVars>>

\* do_quit, lines 1457-1461: die(0).
DieQuit ==
    /\ px.pc = "prompt"
    /\ px' = [px EXCEPT !.pc = "die", !.exit_code = 0, !.cmds = @ + 1]
    /\ UNCHANGED <<hx, ag, rd, ln, pin, ap, fn, shellVars>>

\* die, lines 84-85: sc_file_free(current_file).
DieFreeFile ==
    /\ px.pc = "die"
    /\ px' = [px EXCEPT !.pc = "die_card", !.cf = NULL]
    /\ UNCHANGED <<hx, ag, rd, ln, pin, ap, fn, shellVars>>

\* die, lines 86-89: sc_unlock and sc_disconnect_card.
DieReleaseCard ==
    /\ px.pc = "die_card"
    /\ px' = [px EXCEPT !.pc = "die_ctx", !.card = "disconnected"]
    /\ UNCHANGED <<hx, ag, rd, ln, pin, ap, fn, shellVars>>

\* die, lines 90-92: sc_release_context and exit(ret).
DieReleaseContext ==
    /\ px.pc = "die_ctx"
    /\ px' = [px EXCEPT !.pc = "exit", !.ctx = "released"]
    /\ UNCHANGED <<hx, ag, rd, ln, pin, ap, fn, shellVars>>

NextDie ==
    \/ DieCommand
    \/ Reselect
    \/ DieQuit
    \/ DieFreeFile
    \/ DieReleaseCard
    \/ DieReleaseContext

SpecDie == InitDie /\ [][NextDie]_vars

\* The process is one thread that runs each call to its end: a die that was
\* entered goes on through its three releases.
FairSpecDie ==
    SpecDie /\ WF_vars(DieFreeFile) /\ WF_vars(DieReleaseCard) /\ WF_vars(DieReleaseContext)

ReselectFailed == px.pc # "idle" /\ px.r # 0

ExitedAfterRelease ==
    /\ px.pc = "exit"
    /\ px.exit_code = 1
    /\ px.cf = NULL
    /\ px.card = "disconnected"
    /\ px.ctx = "released"

\* C17: a failed re-select of the current address leads to the end of the
\* process with exit code 1, after the cached attributes, the card handle
\* and the context were released; from the failure on no command is sent
\* to the card and no command of the shell is run, and the process that
\* has exited stays so.
C17_FailedReselectTerminates ==
    /\ ReselectFailed ~> ExitedAfterRelease
    /\ [][ReselectFailed => (px'.ops = px.ops /\ px'.cmds = px.cmds)]_vars
    /\ [][px.pc = "exit" => px' = px]_vars

\* The process has exited with 1 after a failed re-select.
C17_Witness ==
    /\ ReselectFailed
    /\ ExitedAfterRelease
    /\ px.cmds > 0

\* quit leaves through the same releases with exit code 0.
QuitExitsWithZero ==
    (px.pc = "exit" /\ px.r = 0) =>
        px.exit_code = 0 /\ px.cf = NULL /\ px.card = "disconnected" /\ px.ctx = "released"
-----------------------------------------------------------------------------
(* SpecApdu: do_apdu applied to argument lists of hex tokens, with the      *)
(* card's answer to the transmission.                                       *)

SC_ERROR_INVALID_DATA == -1305
SC_ERROR_TRANSMIT_FAILED == -1107

\* sc_bytes2apdu of libopensc for short APDUs: a header of four bytes, then
\* nothing, Le, Lc and data, or Lc, data and Le.
sc_bytes2apdu(buf) ==
    IF Len(buf) < 4 THEN SC_ERROR_INVALID_DATA
    ELSE IF Len(buf) <= 5 THEN 0
    ELSE IF buf[5] # 0 /\ Len(buf) \in {5 + buf[5], 6 + buf[5]} THEN 0
    ELSE SC_ERROR_INVALID_DATA

\* The loop of lines 1355-1359: each argument is decoded behind the bytes of
\* the ones before it, with its own length as capacity; the result of
\* sc_hex_to_bin is not looked at.
RECURSIVE apdu_bytes(_)
apdu_bytes(argv) ==
    IF argv = <<>> THEN <<>>
    ELSE sc_hex_to_bin(Head(argv), Len(Head(argv))).out \o apdu_bytes(Tail(argv))

\* do_apdu, lines 1343-1385; t is the result of sc_transmit_apdu.
do_apdu(argv, t) ==
    LET parsed(buf, r) ==
            IF r # 0 THEN [ret |-> 2, apdu_r |-> r, sent |-> <<>>, transmit_r |-> 0]
            ELSE IF t # 0 THEN [ret |-> 1, apdu_r |-> 0, sent |-> <<buf>>, transmit_r |-> t]
            ELSE [ret |-> 0, apdu_r |-> 0, sent |-> <<buf>>, transmit_r |-> 0]
        built(buf) == parsed(buf, sc_bytes2apdu(buf))
    IN  IF Len(argv) < 1
        THEN [ret |-> -1, apdu_r |-> 0, sent |-> <<>>, transmit_r |-> 0]
        ELSE built(apdu_bytes(argv))

T_00 == <<"0", "0">>
T_A4 == <<"A", "4">>
T_0002 == <<"0", "0", ":", "0", "2">>
T_0X == <<"0", "x">>
ApduTokens == {T_00, T_A4, T_0002, T_0X}
MaxApduArgs == 4
TransmitAnswers == {0, SC_ERROR_TRANSMIT_FAILED}

InitApdu ==
    /\ ap \in {[pc |-> "called", argv |-> a, ret |-> 0, apdu_r |-> 0, sent |-> <<>>,
                transmit_r |-> 0] : a \in SeqsUpTo(ApduTokens, MaxApduArgs)}
    /\ hx = Idle /\ ag = Idle /\ rd = Idle /\ ln = Idle /\ pin = Idle
    /\ px = Idle /\ fn = Idle
    /\ ShellIdle

Apdu ==
    LET returned(res) ==
            ap' = [ap EXCEPT !.pc = "returned", !.ret = res.ret, !.apdu_r = res.apdu_r,
                             !.sent = res.sent, !.transmit_r = res.transmit_r]
    IN  /\ ap.pc = "called"
        /\ \E t \in TransmitAnswers : returned(do_apdu(ap.argv, t))
        /\ UNCHANGED <<hx, ag, rd, ln, pin, px, fn, shellVars>>

NextApdu == Apdu

SpecApdu == InitApdu /\ [][NextApdu]_vars

\* apdu failed: it was called without argument, its bytes are no APDU, or
\* the transmission failed.
ApduFailed == Len(ap.argv) < 1 \/ ap.apdu_r # 0 \/ ap.transmit_r # 0

\* C18: a handler that fails returns a negative value and returns zero only
\* when it succeeded; so does apdu when the APDU is invalid or when its
\* transmission fails.
C18_FailureReturnsNegative ==
    ap.pc = "returned" =>
        /\ ApduFailed => ap.ret < 0
        /\ ap.ret = 0 => ~ApduFailed

\* What do_apdu returns: -1 for the usage error, 2 for an invalid APDU, 1 for
\* a failed transmission, 0 otherwise.
ApduReturnValues ==
    ap.pc = "returned" =>
        ap.ret = IF Len(ap.argv) < 1 THEN -1
                 ELSE IF ap.apdu_r # 0 THEN 2
                 ELSE IF ap.transmit_r # 0 THEN 1
                 ELSE 0

\* cat returns 0 whatever the card answered to its reads.
CatReturnsZeroAfterReadError ==
    (rd.pc = "done" /\ rd.cmd = "cat") => rd.ret = 0

\* A cat has ended on a read the card refused.
CatReadErrorReached ==
    /\ rd.pc = "done"
    /\ rd.cmd = "cat"
    /\ ~NoCardError(rd.log)
-----------------------------------------------------------------------------
(* SpecName: the file name get and put use when none is given, for the      *)
(* address arg_to_path resolves their first argument to.                    *)

\* path.value[k], k counted from 1; arg_to_path zeroes the path before it
\* fills it, and the bytes behind the length of a DF name are those zeroes.
PathByte(path, k) == IF k <= Len(path.value) THEN path.value[k] ELSE 0

\* do_get, lines 935-942: "%02X%02X_" for every pair of bytes, and the last
\* underscore overwritten with the terminator.  With an empty path the
\* terminator is written before fbuf and fbuf is used as it is: junk stands
\* for what it holds.
RECURSIVE get_filename_loop(_, _, _)
get_filename_loop(path, i, fbuf) ==
    IF 2 * i < Len(path.value)
    THEN get_filename_loop(path, i + 1,
             fbuf \o sprintf_02X(PathByte(path, 2 * i + 1))
                  \o sprintf_02X(PathByte(path, 2 * i + 2)) \o <<"_">>)
    ELSE fbuf

get_default_filename(path, junk) ==
    IF Len(path.value) = 0 THEN junk
    ELSE Take(get_filename_loop(path, 0, <<>>),
              Len(get_filename_loop(path, 0, <<>>)) - 1)

\* do_put, lines 1177-1178: "%02X%02X" of path.value[0] and path.value[1].
put_default_filename(path) ==
    sprintf_02X(PathByte(path, 1)) \o sprintf_02X(PathByte(path, 2))

NameTokens == {T_3F00, T_5015, T_4F01, T_SHORT, T_AID1, T_AID4, AidPrefix}
NameCurrents == {ZeroPath, AidPath(1)} \cup {DeepPath(k) : k \in 0..(MaxDepth - 1)}
\* What an uninitialised fbuf may hold.
JunkNames == {<<>>, <<"?">>}

InitName ==
    /\ fn \in {[pc |-> "called", arg |-> a, cur |-> c, ret |-> 0, path |-> ZeroPath,
                got |-> FALSE, get_name |-> <<>>, put |-> FALSE, put_name |-> <<>>] :
               a \in NameTokens, c \in NameCurrents}
    /\ hx = Idle /\ ag = Idle /\ rd = Idle /\ ln = Idle /\ pin = Idle
    /\ px = Idle /\ ap = Idle
    /\ ShellIdle

\* do_get, line 930, and do_put, line 1172: arg_to_path(argv[0], &path, 0).
NameResolve ==
    LET resolved(a) ==
            fn' = [fn EXCEPT !.pc = IF a.ret # 0 THEN "usage" ELSE "resolved",
                             !.ret = a.ret, !.path = a.path]
    IN  /\ fn.pc = "called"
        /\ resolved(arg_to_path(fn.arg, fn.cur, FALSE))
        /\ UNCHANGED <<hx, ag, rd, ln, pin, px, ap, shellVars>>

\* get <id> with no file name.
GetDefaultName ==
    /\ fn.pc = "resolved"
    /\ ~fn.got
    /\ \E junk \in JunkNames :
         fn' = [fn EXCEPT !.got = TRUE, !.get_name = get_default_filename(fn.path, junk)]
    /\ UNCHANGED <<hx, ag, rd, ln, pin, px, ap, shellVars>>

\* put <id> with no file name.
PutDefaultName ==
    /\ fn.pc = "resolved"
    /\ ~fn.put
    /\ fn' = [fn EXCEPT !.put = TRUE, !.put_name = put_default_filename(fn.path)]
    /\ UNCHANGED <<hx, ag, rd, ln, pin, px, ap, shellVars>>

NextName == NameResolve \/ GetDefaultName \/ PutDefaultName

SpecName == InitName /\ [][NextName]_vars

\* The 2-byte components of an address in upper-case hex, joined by "_".
RECURSIVE JoinedComponents(_)
JoinedComponents(value) ==
    IF Len(value) <= 2 THEN sprintf_02X(value[1]) \o sprintf_02X(value[2])
    ELSE sprintf_02X(value[1]) \o sprintf_02X(value[2]) \o <<"_">>
         \o JoinedComponents(Drop(value, 2))

WholeComponents(path) == Len(path.value) >= 2 /\ Len(path.value) % 2 = 0

\* C19: for the same address get and put use the same default file name,
\* the upper-case hex of every 2-byte component joined by underscores.
C19_GetAndPutShareDefaultName ==
    (fn.pc = "resolved" /\ fn.got /\ fn.put /\ WholeComponents(fn.path)) =>
        /\ fn.get_name = JoinedComponents(fn.path.value)
        /\ fn.put_name = JoinedComponents(fn.path.value)

\* get names the file after every component, put after the first one only.
GetNamesEveryComponent ==
    (fn.pc = "resolved" /\ fn.got /\ WholeComponents(fn.path)) =>
        fn.get_name = JoinedComponents(fn.path.value)
PutNamesFirstComponent ==
    (fn.pc = "resolved" /\ fn.put /\ WholeComponents(fn.path)) =>
        fn.put_name = JoinedComponents(Take(fn.path.value, 2))

\* 5015 below 3F00: get writes 3F00_5015, put reads 3F00.
DefaultNamesDiffer ==
    /\ fn.got
    /\ fn.put
    /\ fn.get_name = <<"3", "F", "0", "0", "_", "5", "0", "1", "5">>
    /\ fn.put_name = <<"3", "F", "0", "0">>
-----------------------------------------------------------------------------
(* cd and the kind of the file it makes current.                            *)

\* A step in which cd, on a card without the exception, has selected a file
\* that is not a DF.
CdToNonDF ==
    /\ Ran("cd")
    /\ card_type # SC_CARD_TYPE_BELPIC_EID
    /\ last'.argv # <<T_UP>>
    /\ last'.selects # <<>>
    /\ last'.selects[1].r = 0
    /\ FileOf(last'.selects[1].path).type # SC_FILE_TYPE_DF

\* What such a cd leaves: the navigation state as it was, a second select
\* that asks for the previous address, and, back at the prompt, a failure
\* with the card on the previous address.
CdRefused ==
    /\ current_path' = current_path
    /\ pc' = "prompt" => current_file' = current_file
    /\ Len(last'.selects) = 2
    /\ last'.selects[2].path = current_path
    /\ pc' = "prompt" => (last'.ret < 0 /\ selected' = current_path)

\* A successful cd has made a DF the current file.
CdEstablishedDF ==
    (/\ pc = "prompt"
     /\ card_type # SC_CARD_TYPE_BELPIC_EID
     /\ last.cmd = "cd"
     /\ last.ret = 0) => current_file.type = SC_FILE_TYPE_DF

\* C20: on a card without the exception, cd to a file that is not a DF
\* fails, drops the attributes it was given and selects the previous
\* address again; whatever cd commands were run, the current file a
\* successful cd has established is a DF.
C20_CdOnlyIntoDF ==
    /\ [][CdToNonDF => CdRefused]_vars
    /\ []CdEstablishedDF

\* The same when there is a previous address to select.
CdIntoNonDFWithCurrentPath ==
    [][(CdToNonDF /\ current_path # ZeroPath) => CdRefused]_vars

\* Without one, nothing is selected after the refusal and the card stays on
\* the file that is not a DF.
CdIntoNonDFWithoutCurrentPath ==
    [][(CdToNonDF /\ current_path = ZeroPath) =>
           /\ pc' = "prompt"
           /\ last'.ret < 0
           /\ Len(last'.selects) = 1
           /\ selected' = last'.selects[1].path
           /\ current_path' = current_path
           /\ current_file' = current_file]_vars
-----------------------------------------------------------------------------
(* arg_to_path from a DF name as current address.                           *)

\* C21: with a DF name as current address, a 2-byte id other than 3F00
\* resolves in non-raw mode to an address whose path bytes are the two id
\* bytes alone and whose application prefix is the DF name, byte for byte
\* and of the same length; a DF name of more than 16 bytes is rejected.
C21_IdBelowAidKeepsAidApart ==
    (/\ ag.pc = "done"
     /\ ag.cur.type = SC_PATH_TYPE_DF_NAME
     /\ IsHexId(ag.arg) /\ ~IsRootToken(ag.arg) /\ ~ag.is_id)
    => IF Len(ag.cur.value) > SC_MAX_AID_SIZE THEN ag.ret # 0
       ELSE /\ ag.ret = 0
            /\ ag.path.value = PairBytes(ag.arg)
            /\ Len(ag.path.value) = 2
            /\ ag.path.aid = ag.cur.value
            /\ Len(ag.path.aid) = Len(ag.cur.value)
            /\ ag.path.type = SC_PATH_TYPE_FILE_ID

\* 5005 below a DF name of four bytes.
C21_Witness ==
    /\ ag.pc = "done"
    /\ ag.cur = AidPath(4)
    /\ ag.arg = <<"5", "0", "0", "5">>
    /\ ~ag.is_id
    /\ ag.path = [type |-> SC_PATH_TYPE_FILE_ID, value |-> <<80, 5>>,
                  aid |-> <<160, 160, 160, 160>>]

-----------------------------------------------------------------------------
(* The form of the current address at the prompt.                           *)

WellFormed(path) ==
    IF path.type = SC_PATH_TYPE_DF_NAME
    THEN Len(path.value) <= SC_MAX_AID_SIZE
    ELSE /\ Len(path.value) % 2 = 0
         /\ Len(path.value) \in 0..SC_MAX_PATH_SIZE

\* C22: after any sequence of cd commands (by id, by aid:, ..) the current
\* address is well formed: an application name of at most 16 bytes, or a
\* path of even length between 0 and 16.
C22_CurrentAddressWellFormed ==
    pc \in {"prompt", "ls"} => WellFormed(current_path)

\* cd by id at the deepest path, and cd by an application name longer than
\* the path buffer, both succeeded.
C22_Witness ==
    /\ pc = "prompt" /\ last.cmd = "cd" /\ last.ret = 0
    /\ \/ last.argv = <<T_5015>> /\ Len(current_path.value) = SC_MAX_PATH_SIZE
          /\ current_path.type = SC_PATH_TYPE_PATH
       \/ last.argv = <<T_AID17>> /\ current_path.type = SC_PATH_TYPE_DF_NAME

-----------------------------------------------------------------------------
(* Short responses in the transparent read loops (SpecRead).  rd.res is the *)
(* result of the loop: -1 where it returns -1 or jumps to err, 0 otherwise. *)

ShortAt(i) == rd.log[i].r >= 0 /\ rd.log[i].r < rd.log[i].c
FailedAt(i) == i = Len(rd.log) /\ rd.pc = "done" /\ rd.res = -1
EndedWellAt(i) == i = Len(rd.log) /\ rd.pc = "done" /\ rd.res = 0
QuirkEnd(i) ==
    /\ rd.ctype = SC_CARD_TYPE_BELPIC_EID
    /\ rd.log[i].r = 0
    /\ rd.log[i].idx # 0

\* C23: a response shorter than requested fails the read on every card,
\* except that on the quirk card family a zero-length response at a
\* non-zero offset ends the read successfully.
C23_ShortReadFails ==
    rd.pc \in {"loop", "done"} =>
        \A i \in 1..Len(rd.log) :
            ShortAt(i) => IF QuirkEnd(i) THEN EndedWellAt(i) ELSE FailedAt(i)

\* What the loops do: the length test is skipped on the quirk card family,
\* where a zero-length response ends the read successfully at any offset
\* and a non-zero short response is taken as data.
ShortReadByCardType ==
    rd.pc \in {"loop", "done"} =>
        \A i \in 1..Len(rd.log) :
            ShortAt(i) =>
                IF rd.ctype # SC_CARD_TYPE_BELPIC_EID THEN FailedAt(i)
                ELSE IF rd.log[i].r = 0 THEN EndedWellAt(i)
                ELSE ~FailedAt(i)

\* On the quirk card family the read never reports a short read.
QuirkCardNeverShortReadError ==
    (rd.pc = "done" /\ rd.ctype = SC_CARD_TYPE_BELPIC_EID /\ rd.res = -1)
        => rd.log[Len(rd.log)].r < 0

\* A zero-length first response ended a read successfully; a non-zero short
\* response was followed by another read.
ZeroAtOffsetZeroEndedWell ==
    /\ rd.pc = "done" /\ rd.res = 0 /\ rd.size > 0
    /\ Len(rd.log) = 1 /\ rd.log[1].r = 0 /\ rd.log[1].idx = 0
ShortResponseTakenAsData ==
    /\ rd.pc \in {"loop", "done"} /\ Len(rd.log) >= 2
    /\ rd.log[1].r > 0 /\ rd.log[1].r < rd.log[1].c

-----------------------------------------------------------------------------
(* read_and_print_record_file, lines 345-362 (SpecRec).  rd holds the loop  *)
(* counter rec, the sfi passed in, the calls of sc_read_record so far with  *)
(* their results, and the value returned.                                   *)

SC_ERROR_RECORD_NOT_FOUND == -1202
SC_RECORD_BY_REC_NR == "BY_REC_NR"

\* The number of records after which the card has none left.
MaxRecords == 4

\* What sc_read_record returns for record rec: the length of the record, or
\* an error code.
RecordAnswers(rec) ==
    IF rec > MaxRecords THEN {SC_ERROR_RECORD_NOT_FOUND, SC_ERROR_CARD_CMD_FAILED}
    ELSE {0, 1, 256, SC_ERROR_RECORD_NOT_FOUND, SC_ERROR_CARD_CMD_FAILED}

\* The loop that returns 0 on every negative result.
read_record_result_any_error_ends(r) ==
    IF r < 0 THEN [done |-> TRUE, ret |-> 0]
    ELSE [done |-> FALSE, ret |-> 0]

\* The body of the for loop after the call, on the result r.
read_record_result(r) ==
    IF r = SC_ERROR_RECORD_NOT_FOUND THEN [done |-> TRUE, ret |-> 0]
    ELSE IF r < 0 THEN [done |-> TRUE, ret |-> -1]
    ELSE [done |-> FALSE, ret |-> 0]

InitRec ==
    /\ rd \in {[pc |-> "rec", rec |-> 1, sfi |-> s, log |-> <<>>, ret |-> 0] :
                   s \in {0, 1, 30}}
    /\ hx = Idle
    /\ ag = Idle
    /\ ln = Idle
    /\ pin = Idle /\ px = Idle /\ ap = Idle /\ fn = Idle
    /\ ShellIdle

\* One iteration of "for (rec = 1; ; rec++)".
RecRead ==
    /\ rd.pc = "rec"
    /\ \E r \in RecordAnswers(rd.rec) :
         LET log == Append(rd.log, [rec |-> rd.rec, by |-> SC_RECORD_BY_REC_NR,
                                    sfi |-> rd.sfi, r |-> r])
             n == read_record_result(r)
         IN  rd' = IF n.done
                   THEN [rd EXCEPT !.pc = "done", !.log = log, !.ret = n.ret]
                   ELSE [rd EXCEPT !.log = log, !.rec = @ + 1]
    /\ UNCHANGED <<hx, ag, ln, pin, px, ap, fn, shellVars>>

SpecRec == InitRec /\ [][RecRead]_vars

\* The loop is sequential code: its next call is made, and answered.
FairSpecRec == SpecRec /\ WF_vars(RecRead)

RecInOrder ==
    \A i \in 1..Len(rd.log) :
        /\ rd.log[i].rec = i
        /\ rd.log[i].by = SC_RECORD_BY_REC_NR
        /\ rd.log[i].sfi = rd.sfi
        /\ i < Len(rd.log) => rd.log[i].r >= 0

RecStopsAtFirstNegative ==
    /\ rd.pc = "rec" => /\ rd.rec = Len(rd.log) + 1
                        /\ \A i \in 1..Len(rd.log) : rd.log[i].r >= 0
    /\ rd.pc = "done" => /\ Len(rd.log) >= 1
                         /\ rd.log[Len(rd.log)].r < 0
                         /\ rd.ret \in {0, -1}
                         /\ rd.ret = 0 <=>
                                rd.log[Len(rd.log)].r = SC_ERROR_RECORD_NOT_FOUND

\* C24: the records are requested by number 1, 2, 3, ... in order, each
\* once; the loop stops at the first negative result, with success exactly
\* when that result is record-not-found; nothing is requested after a
\* negative result; and the loop terminates once the card answers some
\* record with a negative result.
C24_ReadRecords ==
    /\ [](rd.pc \in {"rec", "done"} => RecInOrder /\ RecStopsAtFirstNegative)
    /\ [][rd.pc = "done" => rd' = rd]_vars
    /\ (rd.pc = "rec") ~> (rd.pc = "done")

\* Some records were read and the loop ended on record-not-found, or on
\* another error.
C24_Witness ==
    /\ rd.pc = "done" /\ Len(rd.log) = 3
    /\ rd.log[3].r \in {SC_ERROR_RECORD_NOT_FOUND, SC_ERROR_CARD_CMD_FAILED}
    /\ rd.ret = IF rd.log[3].r = SC_ERROR_RECORD_NOT_FOUND THEN 0 ELSE -1

-----------------------------------------------------------------------------
(* do_update_record from its select on, lines 1113-1152 (SpecUpd).  rd      *)
(* holds the attributes of the selected file, rec and offs as strtol read   *)
(* them, in_str, the record in buf[0..r-1], the calls sent to the card and  *)
(* err.  buf is indexed from 0.                                             *)

\* sizeof(buf) - offs in size_t: below zero the difference wraps, to
\* val below SIZE_MAX + 1.
size_sub(a, b) ==
    IF b > a THEN [wrap |-> TRUE, val |-> b - a] ELSE [wrap |-> FALSE, val |-> a - b]

\* hex2binary(buf + offs, sizeof(buf) - offs, in_str): a wrapped capacity
\* exceeds the length of every in_str.
decode_at(offs, in_str) ==
    LET cap == size_sub(UpdateBufSize, offs)
    IN  hex2binary(IF cap.wrap THEN Len(in_str) ELSE cap.val, in_str)

\* buf[0..r-1] once the bytes out are stored from buf + offs on.
overlay(record, offs, out) ==
    [k \in 1..Len(record) |->
        IF k - 1 >= offs /\ k - 1 < offs + Len(out)
        THEN out[k - offs] ELSE record[k]]

\* Whether the bytes out, stored from buf + offs on, all lie in buf.
InsideBuf(offs, out) ==
    out = <<>> \/ (offs >= 0 /\ offs + Len(out) <= UpdateBufSize)

UpdOffsets == {-1, 0, 1, 2, UpdateBufSize - 1, UpdateBufSize, UpdateBufSize + 1}
UpdLiterals == {<<>>, <<"1", "a">>, <<"1", "a", "2", "b">>, <<"1">>, <<"z", "z">>}
UpdRecords == {<<>>, <<7>>, <<7, 8>>, <<7, 8, 9>>}
UpdStructures == {SC_FILE_EF_LINEAR_VARIABLE, SC_FILE_EF_TRANSPARENT}

InitUpd ==
    /\ rd \in {[pc |-> "select", ef_structure |-> st, record_count |-> RecordCount,
                rec |-> n, offs |-> o, in_str |-> s, record |-> <<>>, buf |-> <<>>,
                r |-> 0, i |-> 0, log |-> <<>>, err |-> 1, ret |-> 0, ub |-> "no"] :
                   st \in UpdStructures, n \in 0..(RecordCount + 1),
                   o \in UpdOffsets, s \in UpdLiterals}
    /\ hx = Idle
    /\ ag = Idle
    /\ ln = Idle
    /\ pin = Idle /\ px = Idle /\ ap = Idle /\ fn = Idle
    /\ ShellIdle

\* sc_select_file, lines 1113-1117.
UpdSelect ==
    /\ rd.pc = "select"
    /\ \E ok \in BOOLEAN :
         rd' = IF ok THEN [rd EXCEPT !.pc = "check"]
               ELSE [rd EXCEPT !.pc = "done", !.ret = -1]
    /\ UNCHANGED <<hx, ag, ln, pin, px, ap, fn, shellVars>>

\* The tests of lines 1119-1125.
UpdCheck ==
    /\ rd.pc = "check"
    /\ rd' = IF \/ rd.ef_structure # SC_FILE_EF_LINEAR_VARIABLE
                \/ rd.rec < 1 \/ rd.rec > rd.record_count
             THEN [rd EXCEPT !.pc = "err"]
             ELSE [rd EXCEPT !.pc = "read"]
    /\ UNCHANGED <<hx, ag, ln, pin, px, ap, fn, shellVars>>

\* sc_read_record, lines 1127-1131.
UpdRead ==
    /\ rd.pc = "read"
    /\ \/ \E rec \in UpdRecords :
            rd' = [rd EXCEPT !.pc = "decode", !.record = rec, !.buf = rec,
                             !.r = Len(rec),
                             !.log = Append(@, [op |-> "read", rec |-> rd.rec,
                                                r |-> Len(rec), data |-> <<>>])]
       \/ rd' = [rd EXCEPT !.pc = "err", !.r = SC_ERROR_CARD_CMD_FAILED,
                           !.log = Append(@, [op |-> "read", rec |-> rd.rec,
                                              r |-> SC_ERROR_CARD_CMD_FAILED,
                                              data |-> <<>>])]
    /\ UNCHANGED <<hx, ag, ln, pin, px, ap, fn, shellVars>>

\* hex2binary(buf + offs, sizeof(buf) - offs, in_str), lines 1133-1137.  A
\* byte stored outside buf is undefined behaviour: the process is killed
\* ("crash"), or goes on with the bytes inside buf stored and its other
\* memory overwritten, r among it ("length") or not ("memory").
UpdDecode ==
    /\ rd.pc = "decode"
    /\ LET d == decode_at(rd.offs, rd.in_str)
           stored == [rd EXCEPT !.i = d.ret, !.buf = overlay(rd.record, rd.offs, d.out),
                                !.pc = IF d.ret = 0 THEN "err" ELSE "update"]
       IN  IF InsideBuf(rd.offs, d.out)
           THEN rd' = stored
           ELSE \/ rd' = [rd EXCEPT !.pc = "done", !.ub = "crash", !.ret = 139]
                \/ rd' = [stored EXCEPT !.ub = "memory"]
                \/ \E r \in {0, rd.r + 1} :
                       rd' = [stored EXCEPT !.ub = "length", !.r = r,
                                            !.buf = IF r = 0 THEN <<>>
                                                    ELSE Append(stored.buf, 0)]
    /\ UNCHANGED <<hx, ag, ln, pin, px, ap, fn, shellVars>>

\* sc_update_record(card, rec, buf, r, SC_RECORD_BY_REC_NR), lines 1139-1147.
UpdWrite ==
    /\ rd.pc = "update"
    /\ \E ok \in BOOLEAN :
         rd' = [rd EXCEPT !.pc = "err", !.err = IF ok THEN 0 ELSE 1,
                          !.log = Append(@, [op |-> "update", rec |-> rd.rec,
                                             r |-> IF ok THEN rd.r
                                                   ELSE SC_ERROR_CARD_CMD_FAILED,
                                             data |-> rd.buf])]
    /\ UNCHANGED <<hx, ag, ln, pin, px, ap, fn, shellVars>>

\* err: sc_file_free, select_current_path_or_die, return -err (1149-1152).
UpdEnd ==
    /\ rd.pc = "err"
    /\ rd' = [rd EXCEPT !.pc = "done", !.ret = -rd.err]
    /\ UNCHANGED <<hx, ag, ln, pin, px, ap, fn, shellVars>>

NextUpd == UpdSelect \/ UpdCheck \/ UpdRead \/ UpdDecode \/ UpdWrite \/ UpdEnd

SpecUpd == InitUpd /\ [][NextUpd]_vars

UpdPcs == {"select", "check", "read", "decode", "update", "err", "done"}
UpdSent(op) == {j \in 1..Len(rd.log) : rd.log[j].op = op}
\* The literal, decoded whole.
Literal == hex2binary(Len(rd.in_str), rd.in_str)

UpdGuarded ==
    rd.log # <<>> =>
        /\ rd.ef_structure = SC_FILE_EF_LINEAR_VARIABLE
        /\ rd.rec >= 1 /\ rd.rec <= rd.record_count
        /\ \A j \in 1..Len(rd.log) : rd.log[j].rec = rd.rec

UpdAfterReadAndDecode ==
    \A j \in UpdSent("update") :
        /\ j = 2 /\ rd.log[1].op = "read" /\ rd.log[1].r >= 0
        /\ rd.i # 0 /\ ~Literal.err /\ Literal.out # <<>>

\* The record sent is the record read with the whole literal in it from
\* offset offs on, and as long as the record read.
UpdWritesLiteralInRecord ==
    \A j \in UpdSent("update") :
        /\ Len(rd.log[j].data) = Len(rd.record)
        /\ \A k \in 1..Len(rd.log[j].data) :
               rd.log[j].data[k] =
                   IF k - 1 >= rd.offs /\ k - 1 < rd.offs + Len(Literal.out)
                   THEN Literal.out[k - rd.offs] ELSE rd.record[k]
        /\ rd.offs >= 0 /\ rd.offs + Len(Literal.out) <= Len(rd.record)

\* C25: no record read or update is sent unless the structure is
\* linear-variable and 1 <= rec <= record_count; the update is sent only
\* after a successful read and a successful decode of the literal; the
\* record written back is as long as the record read and is that record
\* with the bytes from offs on replaced by the decoded literal.
C25_GuardedReadModifyWrite ==
    rd.pc \in UpdPcs =>
        UpdGuarded /\ UpdAfterReadAndDecode /\ UpdWritesLiteralInRecord

\* The guards and the order hold of every run.
UpdateRecordGuardedAndOrdered ==
    rd.pc \in UpdPcs => UpdGuarded /\ UpdAfterReadAndDecode

\* With every byte stored inside buf, the record sent is as long as the
\* record read and holds the bytes of the literal that fall inside it.
UpdateRecordWritesWhatFits ==
    (rd.pc \in UpdPcs /\ rd.ub = "no") =>
        \A j \in UpdSent("update") :
            rd.log[j].data = overlay(rd.record, rd.offs, decode_at(rd.offs, rd.in_str).out)

\* An update that succeeded with none of the literal in the record; an
\* update of a length other than the length read.
LiteralPastRecordEnd ==
    /\ rd.pc = "done" /\ rd.ret = 0 /\ rd.ub = "no"
    /\ UpdSent("update") # {}
    /\ rd.offs >= Len(rd.record)
    /\ rd.log[2].data = rd.record
UpdateOfOtherLength ==
    /\ rd.pc = "done" /\ rd.ret = 0 /\ rd.ub = "length"
    /\ Len(rd.log[2].data) # Len(rd.record)

\* C26: for every in_record_offset the overwrite stays inside the 240-byte
\* buffer: buf + offs lies within buf and sizeof(buf) - offs does not wrap.
C26_OverwriteInsideBuffer ==
    (rd.pc \in UpdPcs \ {"select", "check", "read", "decode"}
         /\ Len(rd.log) >= 1 /\ rd.log[1].r >= 0) =>
        /\ rd.offs >= 0 /\ rd.offs <= UpdateBufSize
        /\ ~size_sub(UpdateBufSize, rd.offs).wrap
        /\ rd.ub = "no"

NegativeOffsetDecoded ==
    rd.pc = "done" /\ rd.offs < 0 /\ rd.ub = "memory" /\ rd.ret = 0
WrappedCapacityDecoded ==
    rd.pc = "done" /\ rd.offs > UpdateBufSize /\ rd.ub # "no"
        /\ size_sub(UpdateBufSize, rd.offs).wrap

-----------------------------------------------------------------------------
(* The handles a command acquires and releases (SpecRes).  A handler is the *)
(* sequence of its operations on its local sc_file_t *file, its local FILE  *)
(* *outf and the cached current_file, in program order; Apply runs them on  *)
(* rd: the state of file ("uninit", "null", "live", "freed", "cur" when it  *)
(* aliases current_file, "moved" once current_file owns it), of outf, of    *)
(* current_file ("null", "live", "freed"), the number of live transient     *)
(* handles and of open streams, and whether a release or a use met a handle *)
(* that was not live.                                                       *)

\* One operation of a handler.
ResStep(s, e) ==
    LET bad == [s EXCEPT !.bad = TRUE]
        free_file == IF s.file = "live"
                     THEN [s EXCEPT !.file = "freed", !.live = @ - 1]
                     ELSE IF s.file = "cur" /\ s.cur = "live"
                     THEN [s EXCEPT !.cur = "freed"]
                     ELSE bad
        fclose == IF s.outf = "open"
                  THEN [s EXCEPT !.outf = "closed", !.open = @ - 1]
                  ELSE bad
    IN  IF s.pc # "run" THEN s
        ELSE IF e = "file = NULL" THEN [s EXCEPT !.file = "null"]
        ELSE IF e = "file uninitialised" THEN [s EXCEPT !.file = "uninit"]
        ELSE IF e = "outf = NULL" THEN [s EXCEPT !.outf = "null"]
        ELSE IF e = "outf = stdout" THEN [s EXCEPT !.outf = "stdout"]
        ELSE IF e = "fopen" THEN [s EXCEPT !.outf = "open", !.open = @ + 1]
        ELSE IF e = "sc_select_file" THEN [s EXCEPT !.file = "live", !.live = @ + 1]
        ELSE IF e = "file = current_file" THEN [s EXCEPT !.file = "cur"]
        ELSE IF e = "file->" THEN
            IF s.file = "live" \/ (s.file = "cur" /\ s.cur = "live") THEN s
            ELSE IF s.file = "cur" /\ s.cur = "null" THEN [s EXCEPT !.pc = "crash"]
            ELSE bad
        ELSE IF e = "sc_file_free(file)" THEN free_file
        ELSE IF e = "if (file) sc_file_free(file)" THEN
            IF s.file = "null" THEN s ELSE free_file
        ELSE IF e = "if (outf) fclose(outf)" THEN
            IF s.outf = "null" THEN s ELSE fclose
        ELSE IF e = "if (outf != NULL && outf != stdout) fclose(outf)" THEN
            IF s.outf \in {"null", "stdout"} THEN s ELSE fclose
        ELSE IF e = "current_file = file" THEN
            IF s.file # "live" \/ s.cur = "freed" THEN bad
            ELSE [s EXCEPT !.cur = "live", !.file = "moved", !.live = @ - 1]
        ELSE IF e = "die" THEN
            IF s.cur = "freed" THEN bad
            ELSE [s EXCEPT !.pc = "exit", !.cur = IF @ = "live" THEN "freed" ELSE @]
        ELSE s

RECURSIVE Apply(_, _)
Apply(s, es) == IF es = <<>> THEN s ELSE Apply(ResStep(s, Head(es)), Tail(es))

\* select_current_path_or_die with the answer of its select.
reselect(ok) == IF ok THEN <<>> ELSE <<"die">>

\* do_cd without the sc_file_free of a file that is not a DF.
cd_events_not_df_kept(argc, up, can_up, arg_ok, sel_ok, is_df, resel_ok) ==
    LET locals == <<"file uninitialised">>
        keep == <<"sc_select_file", "current_file = file">>
    IN  IF argc # 1 THEN locals
        ELSE IF up THEN (IF can_up /\ sel_ok THEN locals \o keep ELSE locals)
        ELSE IF ~arg_ok \/ ~sel_ok THEN locals
        ELSE IF ~is_df
             THEN locals \o <<"sc_select_file", "file->">> \o reselect(resel_ok)
        ELSE locals \o <<"sc_select_file", "file->">> \o <<"current_file = file">>

\* do_cd, lines 258-314; "current_file = file" stands for lines 284-286 and
\* 306-308, which free the old current_file first.
cd_events(argc, up, can_up, arg_ok, sel_ok, is_df, resel_ok) ==
    LET locals == <<"file uninitialised">>
        keep == <<"sc_select_file", "current_file = file">>
    IN  IF argc # 1 THEN locals
        ELSE IF up THEN (IF can_up /\ sel_ok THEN locals \o keep ELSE locals)
        ELSE IF ~arg_ok \/ ~sel_ok THEN locals
        ELSE IF ~is_df
             THEN locals \o <<"sc_select_file", "file->", "sc_file_free(file)">>
                         \o reselect(resel_ok)
        ELSE locals \o <<"sc_select_file", "file->">> \o <<"current_file = file">>

\* do_ls, lines 212-256: kids[i] is whether the select of child i succeeded,
\* die_at the child after which the re-select failed (0: none).
RECURSIVE ls_events(_, _, _)
ls_events(kids, i, die_at) ==
    IF i > Len(kids) THEN <<>>
    ELSE <<"file = NULL">>
           \o (IF kids[i] THEN <<"sc_select_file", "file->", "sc_file_free(file)">>
               ELSE <<>>)
           \o reselect(i # die_at)
           \o ls_events(kids, i + 1, die_at)

\* do_cat, lines 364-432; how is "current", "sfi" or "id".
cat_events(argc, how, have_cur, arg_ok, sel_ok, resel_ok) ==
    LET locals == <<"file = NULL">>
        current == <<"file = current_file", "file->">>
        err == <<"if (file) sc_file_free(file)">> \o reselect(resel_ok)
    IN  IF argc > 1 THEN locals
        ELSE IF argc = 0 THEN locals \o current
        ELSE IF how = "sfi"
             THEN (IF ~have_cur THEN locals \o err ELSE locals \o current)
        ELSE IF ~arg_ok THEN locals
        ELSE IF ~sel_ok THEN locals \o err
        ELSE locals \o <<"sc_select_file", "file->">> \o err

\* do_info, lines 434-565.
info_events(argc, arg_ok, sel_ok, resel_ok) ==
    LET locals == <<"file uninitialised">>
    IN  IF argc = 0 THEN locals \o <<"file = current_file", "file->">>
        ELSE IF argc # 1 \/ ~arg_ok \/ ~sel_ok THEN locals
        ELSE locals \o <<"sc_select_file", "file->", "sc_file_free(file)">>
                    \o reselect(resel_ok)

\* do_asn1, lines 1387-1455.
asn1_events(argc, arg_ok, sel_ok, resel_ok) ==
    LET locals == <<"file = NULL">>
        err == <<"if (file) sc_file_free(file)">> \o reselect(resel_ok)
    IN  IF argc > 1 THEN locals
        ELSE IF argc = 0 THEN locals \o <<"file = current_file", "file->">>
        ELSE IF ~arg_ok THEN locals
        ELSE IF ~sel_ok THEN locals \o err
        ELSE locals \o <<"sc_select_file", "file->">> \o err

\* do_get, lines 917-998; out is "stdout", "opened" or "failed".
get_events(argc, arg_ok, out, sel_ok, resel_ok) ==
    LET locals == <<"file = NULL", "outf = NULL">>
        err == <<"if (file) sc_file_free(file)",
                 "if (outf != NULL && outf != stdout) fclose(outf)">>
                   \o reselect(resel_ok)
        opened == locals \o (IF out = "stdout" THEN <<"outf = stdout">> ELSE <<"fopen">>)
    IN  IF argc < 1 \/ argc > 2 \/ ~arg_ok THEN locals
        ELSE IF out = "failed" THEN locals \o err
        ELSE IF ~sel_ok THEN opened \o err
        ELSE opened \o <<"sc_select_file", "file->">> \o err

\* do_put, lines 1159-1228.
put_events(argc, arg_ok, out, sel_ok, resel_ok) ==
    LET locals == <<"file = NULL", "outf = NULL">>
        err == <<"if (file) sc_file_free(file)", "if (outf) fclose(outf)">>
                   \o reselect(resel_ok)
        opened == locals \o <<"fopen">>
    IN  IF argc < 1 \/ argc > 2 \/ ~arg_ok THEN locals
        ELSE IF out = "failed" THEN locals \o err
        ELSE IF ~sel_ok THEN opened \o err
        ELSE opened \o <<"sc_select_file", "file->">> \o err

\* do_update_binary (lines 1035-1092) and do_update_record (1094-1156):
\* args_ok is the argument count, arg_to_path and, for update_binary, the
\* decoding of the value.
update_events(args_ok, sel_ok, resel_ok) ==
    LET locals == <<"file uninitialised">>
    IN  IF ~args_ok \/ ~sel_ok THEN locals
        ELSE locals \o <<"sc_select_file", "file->", "sc_file_free(file)">>
                    \o reselect(resel_ok)

InitRes ==
    /\ rd \in {[pc |-> "prompt", cur |-> c, file |-> "uninit", outf |-> "null",
                live |-> 0, open |-> 0, bad |-> FALSE, n |-> 0,
                last |-> [cmd |-> "none", events |-> <<>>]] : c \in {"null", "live"}}
    /\ hx = Idle
    /\ ag = Idle
    /\ ln = Idle
    /\ pin = Idle /\ px = Idle /\ ap = Idle /\ fn = Idle
    /\ ShellIdle

\* cmd->func(cargc-1, cargv+1) and the return to the loop of main.
ResRun(cmd, events) ==
    /\ rd.pc = "prompt"
    /\ rd.n < MaxCommands
    /\ LET s == Apply([rd EXCEPT !.pc = "run"], events)
       IN  rd' = [s EXCEPT !.pc = IF @ = "run" THEN "prompt" ELSE @,
                           !.n = @ + 1,
                           !.last = [cmd |-> cmd, events |-> events]]
    /\ UNCHANGED <<hx, ag, ln, pin, px, ap, fn, shellVars>>

ResCd ==
    \E argc \in 0..2, up, can_up, arg_ok, sel_ok, is_df, resel_ok \in BOOLEAN :
        ResRun("cd", cd_events(argc, up, can_up, arg_ok, sel_ok, is_df, resel_ok))
ResLs ==
    \E kids \in SeqsUpTo(BOOLEAN, MaxLsChildren) :
        \E die_at \in 0..Len(kids) : ResRun("ls", ls_events(kids, 1, die_at))
ResCat ==
    \E argc \in 0..2, how \in {"sfi", "id"}, arg_ok, sel_ok, resel_ok \in BOOLEAN :
        ResRun("cat", cat_events(argc, how, rd.cur # "null", arg_ok, sel_ok, resel_ok))
ResInfo ==
    \E argc \in 0..2, arg_ok, sel_ok, resel_ok \in BOOLEAN :
        ResRun("info", info_events(argc, arg_ok, sel_ok, resel_ok))
ResAsn1 ==
    \E argc \in 0..2, arg_ok, sel_ok, resel_ok \in BOOLEAN :
        ResRun("asn1", asn1_events(argc, arg_ok, sel_ok, resel_ok))
ResGet ==
    \E argc \in 0..3, out \in {"stdout", "opened", "failed"},
       arg_ok, sel_ok, resel_ok \in BOOLEAN :
        ResRun("get", get_events(argc, arg_ok, out, sel_ok, resel_ok))
ResPut ==
    \E argc \in 0..3, out \in {"opened", "failed"}, arg_ok, sel_ok, resel_ok \in BOOLEAN :
        ResRun("put", put_events(argc, arg_ok, out, sel_ok, resel_ok))
ResUpdate ==
    \E cmd \in {"update_binary", "update_record"}, args_ok, sel_ok, resel_ok \in BOOLEAN :
        ResRun(cmd, update_events(args_ok, sel_ok, resel_ok))

NextRes ==
    ResCd \/ ResLs \/ ResCat \/ ResInfo \/ ResAsn1 \/ ResGet \/ ResPut \/ ResUpdate

SpecRes == InitRes /\ [][NextRes]_vars

ResPcs == {"prompt", "exit", "crash"}

\* C27: when a command has returned to the shell loop, every transient
\* file handle and every local stream it acquired has been released exactly
\* once, and current_file has not been released while it is current.
C27_HandlesReleasedOnReturn ==
    (rd.pc = "prompt" /\ rd.n > 0) =>
        /\ rd.live = 0
        /\ rd.open = 0
        /\ ~rd.bad
        /\ rd.cur \in {"null", "live"}
        /\ rd.file # "live" /\ rd.outf # "open"

\* A command that acquired a handle and a stream, or a handle after another
\* one was installed as current_file, has returned.
C27_Witness ==
    /\ rd.pc = "prompt" /\ rd.n >= 2
    /\ \/ rd.last.cmd = "get" /\ rd.file = "freed" /\ rd.outf = "closed"
       \/ rd.last.cmd = "cd" /\ rd.file = "freed" /\ rd.cur = "live"

-----------------------------------------------------------------------------
(* The prompt buffer.                                                       *)

PromptSize(path) == Len(prompt_text(path)) + 1

\* C28: for every reachable current address the prompt, with its
\* terminating NUL, fits the 40-character prompt buffer.
C28_PromptFitsBuffer ==
    pc = "prompt" => PromptSize(current_path) <= PromptBufSize

\* The prompt fits for paths of up to five components and application
\* names of up to 14 bytes, and for no longer address.
PromptFitsShortAddresses ==
    pc = "prompt" =>
        (PromptSize(current_path) <= PromptBufSize <=>
            IF current_path.type = SC_PATH_TYPE_DF_NAME
            THEN Len(current_path.value) <= 14
            ELSE Len(current_path.value) <= 10)

\* The prompts of the deepest path and of the longest application name.
DeepestPathPrompt ==
    /\ pc = "prompt" /\ current_path = DeepPath(7)
    /\ PromptSize(current_path) = 51
LongestNamePrompt ==
    /\ pc = "prompt" /\ current_path.type = SC_PATH_TYPE_DF_NAME
    /\ Len(current_path.value) = SC_MAX_AID_SIZE
    /\ PromptSize(current_path) = 44

-----------------------------------------------------------------------------
(* Commands on the current file when none is cached.                        *)

OnCurrentFile == {"cat", "info", "asn1"}

\* C29: started with an empty initial path, cat, info and asn1 without an
\* argument never read the absent cached attributes: they return an error
\* to the shell loop.
C29_NoCachedAttributesFailsCleanly ==
    [][(/\ pc = "prompt" /\ current_file = NULL
        /\ last'.cmd \in OnCurrentFile /\ last'.argv = <<>>)
          => pc' = "prompt" /\ last'.ret # 0]_vars

\* Only "cat sfi:<n>" tests current_file before it uses it (line 384).
CatBySfiFailsCleanly ==
    [][(/\ pc = "prompt" /\ current_file = NULL
        /\ last'.cmd = "cat" /\ last'.argv \in {<<T_SFI1>>, <<T_SFI0>>})
          => pc' = "prompt" /\ last'.ret # 0]_vars

\* Without an argument the three commands dereference the null
\* current_file whenever none is cached.
NullCurrentFileIsDereferenced ==
    [][(/\ pc = "prompt" /\ current_file = NULL
        /\ last'.cmd \in OnCurrentFile /\ last'.argv = <<>>)
          => pc' = "exit" /\ exit_code' = 139]_vars

NullDereferenceReached ==
    /\ pc = "exit" /\ exit_code = 139
    /\ current_file = NULL /\ current_path = ZeroPath
    /\ last.cmd \in OnCurrentFile /\ last.argv = <<>>

-----------------------------------------------------------------------------
(* cd <id> followed by cd ..                                                *)

\* cd .. run in the state a command leaves, the card answering its select.
CdUpNext ==
    do_cd(<<T_UP>>, current_path', current_file', selected', card_type, "ok", "ok")

\* cd .., run where a cd <id> has just succeeded from the address A, succeeds
\* and is back on A.
BackOn(A) ==
    /\ CdUpNext.kind = "return"
    /\ CdUpNext.ret = 0
    /\ CdUpNext.cp = A
    /\ CdUpNext.sel = A

CdIntoChild == Returned("cd") /\ last'.argv = <<T_5015>> /\ last'.ret = 0

\* C30: from every reachable current address A, a successful cd <id> into
\* a child directory followed by cd .. succeeds and returns the current
\* address to exactly A, with the card's selection on A.
C30_CdThenCdUpReturns ==
    [][CdIntoChild => BackOn(current_path)]_vars

\* The round trip holds from the path-typed addresses that leave room for
\* one more component.
CdThenCdUpReturnsOnPaths ==
    [][(/\ CdIntoChild
        /\ current_path.type = SC_PATH_TYPE_PATH
        /\ Len(current_path.value) + 2 <= SC_MAX_PATH_SIZE)
          => BackOn(current_path)]_vars

\* From an application name, from the empty address and from the deepest
\* path it does not.
CdThenCdUpElsewhere ==
    [][(/\ CdIntoChild
        /\ \/ current_path.type # SC_PATH_TYPE_PATH
           \/ Len(current_path.value) = SC_MAX_PATH_SIZE)
          => ~BackOn(current_path)]_vars

\* cd .. has failed right below an application.
CdUpBelowApplicationFails ==
    /\ pc = "prompt" /\ last.cmd = "cd" /\ last.argv = <<T_UP>> /\ last.ret # 0
    /\ current_path.type = SC_PATH_TYPE_FILE_ID
    /\ Len(current_path.value) = 2 /\ current_path.aid # <<>>
    /\ last.selects = <<>>

====
